---------------------------- MODULE Spec2Model ----------------------------
(***************************************************************************)
(* wentsketchy: the aerospace item of the bar.                             *)
(*                                                                         *)
(* The repository holds several revisions of the aerospace item.  The      *)
(* reconciler that keeps renderedItems / closingItems / workspaceWindowIDs *)
(* (AerospaceItem.render) is modelled from its three revisions; the        *)
(* variable `variant' says which one a behaviour runs:                     *)
(*   "r6"  render with deferred bracket recreation   (pendingBracketUpdates)*)
(*   "r5"  render with a bracket spacer per workspace                       *)
(*   "r4"  the r5 algorithm behind recover() boundaries and a fallback item *)
(*   "ev"  the event driven item of cmd/cli/config/items/aerospace.go       *)
(*         (applyTree, CheckTree, startDelayedPoll), with the goroutines    *)
(*         that call it                                                     *)
(*                                                                         *)
(* Strings are modelled as the sequence of their dot separated segments:   *)
(* "aerospace.window.7" is <<"aerospace","window","7">>, "" is <<"">>, and *)
(* fmt.Sprintf("%s.%s", a, b) is a \o b.  A prefix test on such a string   *)
(* compares whole segments; every identifier the item builds is a prefix   *)
(* constant followed by a dot, so nothing is lost.                         *)
(***************************************************************************)
EXTENDS Integers, Sequences, FiniteSets, TLC

\* ------------------------------------------------------------------ bounds
\* Window ids of the snapshots are 1..MaxWindows.
MaxWindows == 2
\* The clock stops advancing at MaxTime (in ticks).
MaxTime == 1
\* Clock ticks per millisecond.
TicksPerMs == 1
MaxQueries == 3
MaxFired == 1

\* -------------------------------------------------------------- the scope
\* Which snapshots and which icon table a behaviour explores; fixed by the
\* initial state.
VARIABLE world

\* ------------------------------------------------------- program constants
\* settings.Sketchybar.Aerospace.TransitionTime ("1", milliseconds).
TransitionTimeMs == 1
\* getWindowVisibility: width of a shown window.
ShownWidth == 32
\* settings.Sketchybar.ItemSpacing.
ItemSpacing == 2

transitionDuration == TransitionTimeMs * TicksPerMs

\* aerospace.go: the delay of the poll after an event, and the shortest time
\* between the start of a poll and the next timer.
pollDelay == 100 * TicksPerMs
pollDebounce == 10 * TicksPerMs

\* handleWithRetry: the attempts at one message.
maxRetries == 3

EmptyString == <<"">>

aerospaceCheckerItemName == <<"aerospace", "checker">>
workspaceItemPrefix == <<"aerospace", "workspace">>
windowItemPrefix == <<"aerospace", "window">>
bracketItemPrefix == <<"aerospace", "bracket">>
bracketSpacerItemPrefix == <<"aerospace", "bracket", "spacer">>
spacerItemPrefix == <<"aerospace", "spacer">>
aerospaceSpacerItemName == <<"aerospace", "spacer">>
fallbackID == <<"aerospace", "fallback">>

\* strconv.Itoa / the %d verb, for the numbers the model uses.
Itoa(n) ==
  CASE n = 0 -> "0" [] n = 1 -> "1" [] n = 2 -> "2" [] n = 3 -> "3"
    [] n = 4 -> "4" [] n = 5 -> "5" [] n = 6 -> "6" [] n = 7 -> "7"
    [] n = 8 -> "8" [] n = 9 -> "9"

\* Workspace names of a config.yaml whose icon table names, next to "1" and
\* "2", a workspace "spacer.1".
IdNames == {<<"1">>, <<"2">>, <<"spacer", "1">>}

\* icons.Workspace: the workspaces that have an icon.  The default table, or
\* (world "ids") the table config.yaml puts in its place.
iconsWorkspace ==
  IF world = "ids" THEN IdNames
  ELSE {<<"1">>, <<"2">>, <<"3">>, <<"4">>, <<"5">>, <<"6">>}

getSketchybarWorkspaceID(spaceID) == workspaceItemPrefix \o spaceID
getSketchybarWindowID(windowID) == windowItemPrefix \o <<Itoa(windowID)>>
getSketchybarBracketID(spaceID) == bracketItemPrefix \o spaceID
getSketchybarBracketSpacerID(spaceID) == bracketSpacerItemPrefix \o spaceID
getSketchybarSpacerID(spaceID) == spacerItemPrefix \o spaceID

HasPrefix(itemID, prefix) ==
  /\ Len(itemID) > Len(prefix)
  /\ SubSeq(itemID, 1, Len(prefix)) = prefix

isWindowItem(itemID) == HasPrefix(itemID, windowItemPrefix)
isBracketItem(itemID) == HasPrefix(itemID, bracketItemPrefix)

extractWorkspaceFromBracketID(bracketItemID) ==
  IF ~isBracketItem(bracketItemID) THEN EmptyString
  ELSE SubSeq(bracketItemID, Len(bracketItemPrefix) + 1, Len(bracketItemID))

belongsToWorkspace(windowItemID, workspaceID) == TRUE

\* ------------------------------------------------------------------- maps
EmptyMap == [k \in {} |-> k]
Put(m, k, v) == [x \in (DOMAIN m) \cup {k} |-> IF x = k THEN v ELSE m[x]]
Delete(m, k) == [x \in (DOMAIN m) \ {k} |-> m[x]]
Has(m, k) == k \in DOMAIN m

\* The orders in which a `for ... range' over a map may visit the keys S.
RECURSIVE Orders(_)
Orders(S) ==
  IF S = {} THEN {<<>>}
  ELSE UNION {{<<x>> \o o : o \in Orders(S \ {x})} : x \in S}

Range(s) == {s[i] : i \in 1..Len(s)}


\* ------------------------------------------------------------ the snapshot
\* aerospace.Tree: Monitors (each with its ordered Workspaces, each with its
\* ordered Windows) and the index of the windows.  GetTree() may return nil.
NilTree == [nil |-> TRUE, Monitors |-> <<>>, IndexedWindows |-> {}]

VisibleNames == {<<"1">>, <<"2">>}
HiddenNames == {<<"9">>}
WorkspaceNames == VisibleNames \cup HiddenNames
NameOrder == << <<"1">>, <<"2">>, <<"spacer", "1">>, <<"9">> >>
WindowIDs == 1..MaxWindows

RECURSIVE Ascending(_)
Ascending(S) ==
  IF S = {} THEN <<>>
  ELSE LET m == CHOOSE x \in S : \A y \in S : x <= y
       IN <<m>> \o Ascending(S \ {m})

\* The snapshot in which the visible workspaces P exist next to the hidden
\* ones and window w is in workspace place[w] (EmptyString: the window does
\* not exist); the windows of a workspace are listed by ascending id.
MkTree(P, place) ==
  LET listed(n) == n \in P \cup HiddenNames
      wins(n) == Ascending({w \in DOMAIN place : place[w] = n})
      names == SelectSeq(NameOrder, listed)
  IN [nil |-> FALSE,
      Monitors |-> << [Monitor |-> 1,
                       Workspaces |-> [i \in 1..Len(names) |->
                                         [Workspace |-> names[i], Windows |-> wins(names[i])]]] >>,
      IndexedWindows |-> {w \in DOMAIN place : place[w] # EmptyString}]

\* The snapshot t with a second monitor: the first workspace stays on
\* monitor 1, the others are on monitor 2.
TwoMonitors(t) ==
  [t EXCEPT !.Monitors =
     <<[Monitor |-> 1,
        Workspaces |-> SubSeq(t.Monitors[1].Workspaces, 1, 1)],
       [Monitor |-> 2,
        Workspaces |-> Tail(t.Monitors[1].Workspaces)]>>]

\* The snapshots a refresh may publish, by scope of the exploration (the
\* variable `world'); the hidden workspace is always listed.
\*   "windows": "1" and "2" are listed, each window is in "1", in "2", or
\*              does not exist;
\*   "move":    "1" and "2" are listed, window 1 is in "1" or in "2", the
\*              windows 2..MaxWindows stay in "1", and one more window is in
\*              "2" or does not exist;
\*   "poll":    "1" and "2" are listed, window 1 is in "1" or does not exist,
\*              there is no other window;
\*   "ids":     any of the workspaces IdNames are listed, each window is in
\*              one of them or does not exist;
\*   "spaces":  "1" is listed and "2" is listed or not, window 1 is in a
\*              listed workspace or does not exist, there is no other window;
\*   "hidden":  "1" and "2" are listed, window 1 is in "1", in the hidden
\*              workspace or does not exist, there is no other window;
\*   "displays": the snapshots of "poll", on one monitor or on two.
SnapshotsOf(w) ==
  CASE w = "windows" ->
         {MkTree(VisibleNames, place) :
            place \in [WindowIDs -> VisibleNames \cup {EmptyString}]}
    [] w = "move" ->
         {MkTree(VisibleNames, place) :
            place \in {pl \in [1..(MaxWindows + 1) -> VisibleNames \cup {EmptyString}] :
                         /\ pl[1] \in VisibleNames
                         /\ \A x \in 2..MaxWindows : pl[x] = <<"1">>
                         /\ pl[MaxWindows + 1] \in {<<"2">>, EmptyString}}}
    [] w \in {"poll", "live"} ->
         {MkTree(VisibleNames, place) :
            place \in {pl \in [WindowIDs -> VisibleNames \cup {EmptyString}] :
                         /\ pl[1] \in {<<"1">>, EmptyString}
                         /\ \A x \in 2..MaxWindows : pl[x] = EmptyString}}
    [] w = "ids" ->
         UNION {{MkTree(P, place) : place \in [WindowIDs -> P \cup {EmptyString}]}
                : P \in SUBSET IdNames}
    [] w = "displays" ->
         LET one == {MkTree(VisibleNames, place) :
                       place \in {pl \in [WindowIDs -> VisibleNames \cup {EmptyString}] :
                                    /\ pl[1] \in {<<"1">>, EmptyString}
                                    /\ \A x \in 2..MaxWindows : pl[x] = EmptyString}}
         IN  one \cup {TwoMonitors(t) : t \in one}
    [] w = "hidden" ->
         {MkTree(VisibleNames, place) :
            place \in {pl \in [WindowIDs -> {<<"1">>, EmptyString} \cup HiddenNames] :
                         \A x \in 2..MaxWindows : pl[x] = EmptyString}}
    [] w = "spaces" ->
         UNION {{MkTree(P, place) :
                   place \in {pl \in [WindowIDs -> P \cup {EmptyString}] :
                                \A x \in 2..MaxWindows : pl[x] = EmptyString}}
                : P \in {Q \in SUBSET VisibleNames : <<"1">> \in Q}}

\* The visible workspaces of a monitor, in order (icons.Workspace filter).
visibleWorkspaces(monitor) ==
  LET ok(ws) == ws.Workspace \in iconsWorkspace
  IN SelectSeq(monitor.Workspaces, ok)


\* ------------------------------------------------------------ the commands
\* One sketchybar command of a batch.  width = -1, drawing = "", display = ""
\* and focused = "" stand for "argument not given".  `focused' carries the
\* colour choice of getWorkspaceColors ("yes" / "no").
Cmd ==
  [op |-> "", id |-> EmptyString, animate |-> FALSE, width |-> -1,
   drawing |-> "", display |-> "", focused |-> "",
   members |-> <<>>, after |-> EmptyString]

Remove(id) == [Cmd EXCEPT !.op = "remove", !.id = id]
AddItem(id) == [Cmd EXCEPT !.op = "add", !.id = id]
AddBracket(id, members) ==
  [Cmd EXCEPT !.op = "addBracket", !.id = id, !.members = members]
Move(id, prev) == [Cmd EXCEPT !.op = "move", !.id = id, !.after = prev]
Subscribe(id) == [Cmd EXCEPT !.op = "subscribe", !.id = id]
\* --set id <ItemOptions.ToArgs()>, optionally behind --animate.
SetItem(id, animate, opts) ==
  [Cmd EXCEPT !.op = "set", !.id = id, !.animate = animate,
              !.width = opts.Width, !.drawing = opts.Drawing,
              !.display = opts.Display, !.focused = opts.focused]

ItemOptions == [Width |-> -1, Drawing |-> "", Display |-> "", focused |-> ""]

batch(it, c) == [it EXCEPT !.batches = Append(@, c)]

YesNo(b) == IF b THEN "yes" ELSE "no"

getWorkspaceColors(isFocusedWorkspace) == YesNo(isFocusedWorkspace)

getWindowVisibility(isFocusedWorkspace) ==
  IF isFocusedWorkspace THEN [width |-> ShownWidth, show |-> "on"]
  ELSE [width |-> 0, show |-> "off"]

getSketchybarDisplayIndex(monitorCount, monitorID) ==
  IF monitorCount = 0 THEN "1"
  ELSE IF monitorID + 1 > monitorCount THEN Itoa(1) ELSE Itoa(monitorID + 1)

workspaceToSketchybar(isFocusedWorkspace, monitorsCount, monitorID, workspaceID) ==
  IF workspaceID \notin iconsWorkspace THEN [ok |-> FALSE, opts |-> ItemOptions]
  ELSE [ok |-> TRUE,
        opts |-> [ItemOptions EXCEPT
                    !.Display = getSketchybarDisplayIndex(monitorsCount, monitorID),
                    !.focused = getWorkspaceColors(isFocusedWorkspace)]]

windowToSketchybar(isFocusedWorkspace, monitorID) ==
  LET windowVisibility == getWindowVisibility(isFocusedWorkspace)
  IN [ItemOptions EXCEPT !.Display = Itoa(monitorID),
                         !.Width = windowVisibility.width,
                         !.Drawing = windowVisibility.show,
                         !.focused = YesNo(isFocusedWorkspace)]

checker(it) ==
  LET checkerItem == ItemOptions
  IN batch(batch(batch(it, AddItem(aerospaceCheckerItemName)),
                 SetItem(aerospaceCheckerItemName, FALSE, checkerItem)),
           Subscribe(aerospaceCheckerItemName))

\* --------------------------------------------------- render: the target set
\* newItems of render (r6): the bracket only for a workspace with windows.
newItemsOfWorkspace(vis, i) ==
  LET workspace == vis[i]
  IN {getSketchybarWorkspaceID(workspace.Workspace)}
     \cup {getSketchybarWindowID(w) : w \in Range(workspace.Windows)}
     \cup (IF Len(workspace.Windows) > 0
           THEN {getSketchybarBracketID(workspace.Workspace)} ELSE {})
     \cup (IF i < Len(vis) THEN {getSketchybarSpacerID(workspace.Workspace)} ELSE {})

\* newItems of render (r5, r4): bracket and bracket spacer for every visible
\* workspace.
newItemsOfWorkspace5(vis, i) ==
  LET workspace == vis[i]
  IN {getSketchybarWorkspaceID(workspace.Workspace)}
     \cup {getSketchybarWindowID(w) : w \in Range(workspace.Windows)}
     \cup {getSketchybarBracketID(workspace.Workspace),
           getSketchybarBracketSpacerID(workspace.Workspace)}
     \cup (IF i < Len(vis) THEN {getSketchybarSpacerID(workspace.Workspace)} ELSE {})

TargetSet(v, t) ==
  {aerospaceCheckerItemName, aerospaceSpacerItemName}
  \cup UNION {LET vis == visibleWorkspaces(t.Monitors[m])
              IN UNION {IF v = "r6" THEN newItemsOfWorkspace(vis, i)
                        ELSE newItemsOfWorkspace5(vis, i) : i \in 1..Len(vis)}
              : m \in 1..Len(t.Monitors)}


\* ------------------------------------------------- render: closing and expiry
\* `it' is the item during a render: the fields of AerospaceItem, the batch
\* built so far and the aggregated error.  renderedItems is only assigned at
\* the end of render.

\* for workspaceID := range item.workspaceWindowIDs  (visited in `order')
RECURSIVE removeStaleBrackets(_, _, _)
removeStaleBrackets(it, newItems, order) ==
  IF order = <<>> THEN it
  ELSE LET workspaceID == Head(order)
           bracketID == getSketchybarBracketID(workspaceID)
           it1 == IF bracketID \in it.renderedItems /\ bracketID \notin newItems
                  THEN [batch(it, Remove(bracketID)) EXCEPT
                          !.bracketStates = Delete(@, workspaceID)]
                  ELSE it
       IN removeStaleBrackets(it1, newItems, Tail(order))

\* for itemID := range item.renderedItems  (visited in `order')
RECURSIVE startClosing(_, _, _, _)
startClosing(it, newItems, now, order) ==
  IF order = <<>> THEN it
  ELSE LET itemID == Head(order)
           it1 ==
             IF itemID \in newItems \/ Has(it.closingItems, itemID) THEN it
             ELSE IF isBracketItem(itemID)
               THEN [batch(it, Remove(itemID)) EXCEPT
                       !.bracketStates =
                          Delete(@, extractWorkspaceFromBracketID(itemID))]
             ELSE IF isWindowItem(itemID)
               THEN [batch(it, SetItem(itemID, TRUE,
                                       [ItemOptions EXCEPT !.Drawing = "off",
                                                           !.Width = 0]))
                     EXCEPT !.closingItems = Put(@, itemID, now)]
             ELSE [it EXCEPT !.closingItems = Put(@, itemID, now)]
       IN startClosing(it1, newItems, now, Tail(order))

\* An expiry sweep that expires nothing.
expireNothing(it, now, order) == it

\* for itemID, closingStartTime := range item.closingItems  (in `order')
RECURSIVE expireClosing(_, _, _)
expireClosing(it, now, order) ==
  IF order = <<>> THEN it
  ELSE LET itemID == Head(order)
           it1 == IF now - it.closingItems[itemID] >= transitionDuration
                  THEN [batch(it, Remove(itemID)) EXCEPT
                          !.closingItems = Delete(@, itemID)]
                  ELSE it
       IN expireClosing(it1, now, Tail(order))

\* ----------------------------------------------------- render: brackets (r6)
bracketNeedsUpdate(it, workspaceID, currentWindowIDs) ==
  IF ~Has(it.workspaceWindowIDs, workspaceID) THEN Len(currentWindowIDs) > 0
  ELSE LET previousWindowIDs == it.workspaceWindowIDs[workspaceID]
       IN \/ Len(previousWindowIDs) # Len(currentWindowIDs)
          \/ \E i \in 1..Len(currentWindowIDs) :
               i > Len(previousWindowIDs) \/ currentWindowIDs[i] # previousWindowIDs[i]

hasAnimatingWindows(it, workspaceID, currentWindowIDs, now) ==
  \/ \E i \in 1..Len(currentWindowIDs) : currentWindowIDs[i] \notin it.renderedItems
  \/ \E closingItemID \in DOMAIN it.closingItems :
       /\ isWindowItem(closingItemID)
       /\ belongsToWorkspace(closingItemID, workspaceID)
       /\ now - it.closingItems[closingItemID] < transitionDuration

addWorkspaceBracket(it, isFocusedWorkspace, workspaceID, sketchybarWindowIDs) ==
  LET sketchybarSpaceID == getSketchybarWorkspaceID(workspaceID)
      sketchybarBracketID == getSketchybarBracketID(workspaceID)
      valid(windowID) == windowID # EmptyString
      validWindowIDs == SelectSeq(sketchybarWindowIDs, valid)
  IN IF Len(validWindowIDs) = 0 THEN it
     ELSE batch(batch(it, AddBracket(sketchybarBracketID,
                                     <<sketchybarSpaceID>> \o validWindowIDs)),
                SetItem(sketchybarBracketID, FALSE,
                        [ItemOptions EXCEPT
                           !.focused = getWorkspaceColors(isFocusedWorkspace)]))

updateWorkspaceBracket(it, workspaceID, windowIDs, isFocused) ==
  LET sketchybarBracketID == getSketchybarBracketID(workspaceID)
      it1 == IF sketchybarBracketID \in it.renderedItems
             THEN batch(it, Remove(sketchybarBracketID)) ELSE it
      it2 == [it1 EXCEPT !.bracketStates = Delete(@, workspaceID),
                         !.pendingBracketUpdates = Delete(@, workspaceID)]
      it3 == addWorkspaceBracket(it2, isFocused, workspaceID, windowIDs)
  IN [it3 EXCEPT !.workspaceWindowIDs = Put(@, workspaceID, windowIDs),
                 !.bracketStates = Put(@, workspaceID, windowIDs)]

handleWorkspaceBracket(it, workspace, sketchybarWindowIDs, isFocusedWorkspace, now) ==
  LET sketchybarBracketID == getSketchybarBracketID(workspace.Workspace)
      needsUpdate ==
        \/ sketchybarBracketID \notin it.renderedItems
        \/ bracketNeedsUpdate(it, workspace.Workspace, sketchybarWindowIDs)
  IN IF ~needsUpdate
     THEN IF sketchybarBracketID \in it.renderedItems
          THEN batch(it, SetItem(sketchybarBracketID, TRUE,
                                 [ItemOptions EXCEPT
                                    !.focused = getWorkspaceColors(isFocusedWorkspace)]))
          ELSE it
     ELSE IF hasAnimatingWindows(it, workspace.Workspace, sketchybarWindowIDs, now)
          THEN [it EXCEPT !.pendingBracketUpdates =
                            Put(@, workspace.Workspace, sketchybarWindowIDs)]
          ELSE updateWorkspaceBracket(it, workspace.Workspace,
                                      sketchybarWindowIDs, isFocusedWorkspace)

\* for workspaceID, windowIDs := range item.pendingBracketUpdates (in `order')
RECURSIVE processPendingBracketUpdates(_, _, _, _)
processPendingBracketUpdates(it, focusedWorkspaceID, now, order) ==
  IF order = <<>> THEN it
  ELSE LET workspaceID == Head(order)
           windowIDs == it.pendingBracketUpdates[workspaceID]
           it1 == IF ~hasAnimatingWindows(it, workspaceID, windowIDs, now)
                  THEN updateWorkspaceBracket(it, workspaceID, windowIDs,
                                              focusedWorkspaceID = workspaceID)
                  ELSE it
       IN processPendingBracketUpdates(it1, focusedWorkspaceID, now, Tail(order))

cleanupWorkspaceBracket(it, workspaceID) ==
  [it EXCEPT !.workspaceWindowIDs = Delete(@, workspaceID),
             !.pendingBracketUpdates = Delete(@, workspaceID),
             !.bracketStates = Delete(@, workspaceID)]

addWorkspaceSpacer(it, workspaceID) ==
  LET sketchybarSpacerID == getSketchybarSpacerID(workspaceID)
  IN batch(batch(it, AddItem(sketchybarSpacerID)),
           SetItem(sketchybarSpacerID, FALSE,
                   [ItemOptions EXCEPT !.Width = ItemSpacing * 2]))


\* -------------------------------------------------- render: brackets (r5, r4)
addWorkspaceBracket5(it, isFocusedWorkspace, workspaceID) ==
  LET sketchybarSpaceID == getSketchybarWorkspaceID(workspaceID)
      sketchybarBracketID == getSketchybarBracketID(workspaceID)
      bracketSpacerID == getSketchybarBracketSpacerID(workspaceID)
      itemsForBracket == <<sketchybarSpaceID, bracketSpacerID>>
  IN batch(batch(it, AddBracket(sketchybarBracketID, itemsForBracket)),
           SetItem(sketchybarBracketID, FALSE,
                   [ItemOptions EXCEPT
                      !.focused = getWorkspaceColors(isFocusedWorkspace)]))

addBracketSpacer(it, workspaceID) ==
  LET sketchybarSpacerID == getSketchybarBracketSpacerID(workspaceID)
  IN batch(batch(it, AddItem(sketchybarSpacerID)),
           SetItem(sketchybarSpacerID, FALSE, [ItemOptions EXCEPT !.Width = 0]))

handleWorkspaceBracket5(it, workspace, sketchybarWindowIDs, isFocusedWorkspace) ==
  LET sketchybarBracketID == getSketchybarBracketID(workspace.Workspace)
      borderColor == IF Len(workspace.Windows) = 0 THEN "transparent"
                     ELSE getWorkspaceColors(isFocusedWorkspace)
  IN [batch(it, SetItem(sketchybarBracketID, TRUE,
                        [ItemOptions EXCEPT !.focused = borderColor]))
      EXCEPT !.workspaceWindowIDs = Put(@, workspace.Workspace, sketchybarWindowIDs)]

cleanupWorkspaceBracket5(it, workspaceID) ==
  [it EXCEPT !.workspaceWindowIDs = Delete(@, workspaceID),
             !.bracketStates = Delete(@, workspaceID)]

\* ------------------------------------------- render: workspaces and windows
\* First pass of render (r6, r5): add the new windows, closed.
RECURSIVE addNewWindows(_, _, _, _, _)
addNewWindows(it, t, monitor, isFocusedWorkspace, windows) ==
  IF windows = <<>> THEN it
  ELSE LET windowID == Head(windows)
           windowItem == windowToSketchybar(isFocusedWorkspace, monitor.Monitor)
           sketchybarWindowID == getSketchybarWindowID(windowID)
           initialWindowItem == [windowItem EXCEPT !.Width = 0, !.Drawing = "off"]
           it1 ==
             IF windowID \notin t.IndexedWindows THEN it
             ELSE IF sketchybarWindowID \notin it.renderedItems
               THEN batch(batch(it, AddItem(sketchybarWindowID)),
                          SetItem(sketchybarWindowID, FALSE, initialWindowItem))
             ELSE it
       IN addNewWindows(it1, t, monitor, isFocusedWorkspace, Tail(windows))

\* Second pass of render (r6, r5): chain the windows and animate them; r6
\* repeats the move of a new window.
RECURSIVE positionWindows(_, _, _, _, _, _, _)
positionWindows(v, it, t, monitor, isFocusedWorkspace, windows, prevSketchybarItemID) ==
  IF windows = <<>> THEN it
  ELSE LET windowID == Head(windows)
           windowItem == windowToSketchybar(isFocusedWorkspace, monitor.Monitor)
           sketchybarWindowID == getSketchybarWindowID(windowID)
           isNewWindow == sketchybarWindowID \notin it.renderedItems
           it1 == batch(it, Move(sketchybarWindowID, prevSketchybarItemID))
           it2 == IF v = "r6" /\ isNewWindow
                  THEN batch(it1, Move(sketchybarWindowID, prevSketchybarItemID))
                  ELSE it1
           it3 == batch(it2, SetItem(sketchybarWindowID, TRUE, windowItem))
       IN IF windowID \notin t.IndexedWindows
          THEN positionWindows(v, it, t, monitor, isFocusedWorkspace,
                               Tail(windows), prevSketchybarItemID)
          ELSE positionWindows(v, it3, t, monitor, isFocusedWorkspace,
                               Tail(windows), sketchybarWindowID)

\* renderWindowsSafely (r4): one pass.
RECURSIVE renderWindowsSafely(_, _, _, _, _, _)
renderWindowsSafely(it, t, monitor, isFocusedWorkspace, windows, prevSketchybarItemID) ==
  IF windows = <<>> THEN it
  ELSE LET windowID == Head(windows)
           windowItem == windowToSketchybar(isFocusedWorkspace, monitor.Monitor)
           sketchybarWindowID == getSketchybarWindowID(windowID)
           initialWindowItem == [windowItem EXCEPT !.Width = 0, !.Drawing = "off"]
           it1 == IF sketchybarWindowID \notin it.renderedItems
                  THEN batch(batch(it, AddItem(sketchybarWindowID)),
                             SetItem(sketchybarWindowID, FALSE, initialWindowItem))
                  ELSE it
           it2 == batch(it1, Move(sketchybarWindowID, prevSketchybarItemID))
           it3 == batch(it2, SetItem(sketchybarWindowID, TRUE, windowItem))
       IN IF windowID \notin t.IndexedWindows
          THEN renderWindowsSafely(it, t, monitor, isFocusedWorkspace,
                                   Tail(windows), prevSketchybarItemID)
          ELSE renderWindowsSafely(it3, t, monitor, isFocusedWorkspace,
                                   Tail(windows), sketchybarWindowID)

\* The workspace item: added when it is not rendered, then set.
renderWorkspaceItem(it, sketchybarSpaceID, workspaceSpace) ==
  batch(IF sketchybarSpaceID \notin it.renderedItems
        THEN batch(it, AddItem(sketchybarSpaceID)) ELSE it,
        SetItem(sketchybarSpaceID, TRUE, workspaceSpace.opts))

\* The windows of the workspace: two passes (r6, r5) or one (r4).
renderWindows(v, it, t, monitor, isFocusedWorkspace, windows, sketchybarSpaceID) ==
  IF v = "r4"
  THEN renderWindowsSafely(it, t, monitor, isFocusedWorkspace, windows,
                           sketchybarSpaceID)
  ELSE positionWindows(v,
         addNewWindows(it, t, monitor, isFocusedWorkspace, windows),
         t, monitor, isFocusedWorkspace, windows, sketchybarSpaceID)

\* The ids collected by the window loop: r6 and r5 leave the slot of a window
\* missing from IndexedWindows empty, r4 collects every id.
collectWindowIDs(v, t, windows) ==
  [j \in 1..Len(windows) |->
     IF v # "r4" /\ windows[j] \notin t.IndexedWindows
     THEN EmptyString ELSE getSketchybarWindowID(windows[j])]

\* r6: handleWorkspaceBracket or cleanupWorkspaceBracket.
renderBracket(it, workspace, sketchybarWindowIDs, isFocusedWorkspace, now) ==
  IF Len(workspace.Windows) > 0
  THEN handleWorkspaceBracket(it, workspace, sketchybarWindowIDs,
                              isFocusedWorkspace, now)
  ELSE cleanupWorkspaceBracket(it, workspace.Workspace)

\* r5, r4: bracket spacer, bracket, border colour, cleanup.
ensureBracketSpacer(it, workspaceID) ==
  IF getSketchybarBracketSpacerID(workspaceID) \notin it.renderedItems
  THEN addBracketSpacer(it, workspaceID) ELSE it

ensureBracket(it, isFocusedWorkspace, workspaceID) ==
  IF getSketchybarBracketID(workspaceID) \notin it.renderedItems
  THEN addWorkspaceBracket5(it, isFocusedWorkspace, workspaceID) ELSE it

cleanupIfEmpty(it, workspace) ==
  IF Len(workspace.Windows) = 0
  THEN cleanupWorkspaceBracket5(it, workspace.Workspace) ELSE it

renderBracket5(it, workspace, sketchybarWindowIDs, isFocusedWorkspace) ==
  cleanupIfEmpty(
    handleWorkspaceBracket5(
      ensureBracket(ensureBracketSpacer(it, workspace.Workspace),
                    isFocusedWorkspace, workspace.Workspace),
      workspace, sketchybarWindowIDs, isFocusedWorkspace),
    workspace)

\* The spacer towards the next visible workspace.
renderSpacer(it, workspaceID, isLast) ==
  IF ~isLast /\ getSketchybarSpacerID(workspaceID) \notin it.renderedItems
  THEN addWorkspaceSpacer(it, workspaceID) ELSE it

renderWorkspaceBody(v, it, t, monitor, workspace, isFocusedWorkspace, workspaceSpace, now) ==
  IF v = "r6"
  THEN renderBracket(
         renderWindows(v,
           renderWorkspaceItem(it, getSketchybarWorkspaceID(workspace.Workspace),
                               workspaceSpace),
           t, monitor, isFocusedWorkspace, workspace.Windows,
           getSketchybarWorkspaceID(workspace.Workspace)),
         workspace, collectWindowIDs(v, t, workspace.Windows),
         isFocusedWorkspace, now)
  ELSE renderBracket5(
         renderWindows(v,
           renderWorkspaceItem(it, getSketchybarWorkspaceID(workspace.Workspace),
                               workspaceSpace),
           t, monitor, isFocusedWorkspace, workspace.Windows,
           getSketchybarWorkspaceID(workspace.Workspace)),
         workspace, collectWindowIDs(v, t, workspace.Windows),
         isFocusedWorkspace)

\* The body of `for i, workspace := range visibleWorkspaces'.
renderWorkspace(v, it, t, monitor, vis, i, focusedWorkspaceID, now) ==
  LET workspace == vis[i]
      isFocusedWorkspace == focusedWorkspaceID = workspace.Workspace
      workspaceSpace == workspaceToSketchybar(isFocusedWorkspace, Len(t.Monitors),
                                              monitor.Monitor, workspace.Workspace)
  IN IF ~workspaceSpace.ok
     THEN IF v = "r4"
          THEN renderSpacer([it EXCEPT !.err = TRUE], workspace.Workspace,
                            i = Len(vis))
          ELSE [it EXCEPT !.err = TRUE]
     ELSE renderSpacer(
            renderWorkspaceBody(v, it, t, monitor, workspace, isFocusedWorkspace,
                                workspaceSpace, now),
            workspace.Workspace, i = Len(vis))

RECURSIVE renderWorkspaces(_, _, _, _, _, _, _, _)
renderWorkspaces(v, it, t, monitor, vis, i, focusedWorkspaceID, now) ==
  IF i > Len(vis) THEN it
  ELSE renderWorkspaces(v,
         renderWorkspace(v, it, t, monitor, vis, i, focusedWorkspaceID, now),
         t, monitor, vis, i + 1, focusedWorkspaceID, now)

RECURSIVE renderMonitors(_, _, _, _, _, _)
renderMonitors(v, it, t, m, focusedWorkspaceID, now) ==
  IF m > Len(t.Monitors) THEN it
  ELSE renderMonitors(v,
         renderWorkspaces(v, it, t, t.Monitors[m], visibleWorkspaces(t.Monitors[m]),
                          1, focusedWorkspaceID, now),
         t, m + 1, focusedWorkspaceID, now)


\* ------------------------------------------------------------------- render
RECURSIVE AnyOrder(_)
AnyOrder(S) ==
  IF S = {} THEN <<>>
  ELSE LET x == CHOOSE y \in S : TRUE IN <<x>> \o AnyOrder(S \ {x})

\* The visiting orders of a map loop: the keys in Emitting (the ones whose
\* iteration appends a command) in every order; the iterations of the other
\* keys append nothing and commute with everything, they are visited last.
LoopOrders(Keys, Emitting) ==
  {o \o AnyOrder(Keys \ Emitting) : o \in Orders(Keys \cap Emitting)}

\* The batch passed in to Init / Update: the commands of the items before.
InputBatch == << [Cmd EXCEPT !.op = "other"] >>

createFallbackBatches(batches) ==
  Append(Append(batches, AddItem(fallbackID)),
         SetItem(fallbackID, FALSE, [ItemOptions EXCEPT !.Width = ItemSpacing]))

Working(item, batches) ==
  [renderedItems |-> item.renderedItems,
   closingItems |-> item.closingItems,
   workspaceWindowIDs |-> item.workspaceWindowIDs,
   pendingBracketUpdates |-> item.pendingBracketUpdates,
   bracketStates |-> item.bracketStates,
   batches |-> batches,
   err |-> FALSE]

\* Phase 3 up to the workspaces: checker, global spacer, monitors.
addOrUpdate(v, it, t, focusedWorkspaceID, now) ==
  LET it1 == IF aerospaceCheckerItemName \notin it.renderedItems
             THEN checker(it) ELSE it
      it2 == IF aerospaceSpacerItemName \notin it.renderedItems
             THEN batch(it1, AddItem(aerospaceSpacerItemName)) ELSE it1
      it3 == batch(it2, SetItem(aerospaceSpacerItemName, FALSE,
                                [ItemOptions EXCEPT !.Width = ItemSpacing * 2]))
  IN renderMonitors(v, it3, t, 1, focusedWorkspaceID, now)

\* A render that merges the new target into renderedItems instead of
\* replacing it.
mergeRenderedItems(it, newItems) ==
  [it EXCEPT !.renderedItems = @ \cup newItems]

\* item.renderedItems = newItems
setRenderedItems(it, newItems) ==
  [it EXCEPT !.renderedItems = newItems]

\* render (r6, r5) / renderSafely + renderWithErrorRecovery (r4) on the
\* snapshot t at time now: the set of results, one per visiting order of the
\* map loops.  A result is the item after the call with the batch returned.
render(v, item, batches, t, focusedWorkspaceID, now) ==
  IF t.nil
  THEN IF v = "r4"
       THEN {Working(item, createFallbackBatches(batches))}
       ELSE {[Working(item, batches) EXCEPT !.err = TRUE]}
  ELSE
    LET newItems == TargetSet(v, t)
        it0 == Working(item, batches)
        gone == {id \in item.renderedItems :
                   id \notin newItems /\ ~Has(item.closingItems, id)}
        S1 == {removeStaleBrackets(it0, newItems, o) :
                 o \in LoopOrders(DOMAIN item.workspaceWindowIDs,
                         {w \in DOMAIN item.workspaceWindowIDs :
                            /\ getSketchybarBracketID(w) \in item.renderedItems
                            /\ getSketchybarBracketID(w) \notin newItems})}
        S2 == UNION {{startClosing(x, newItems, now, o) :
                        o \in LoopOrders(item.renderedItems,
                                {id \in gone : isBracketItem(id) \/ isWindowItem(id)})}
                     : x \in S1}
        S3 == UNION {{expireClosing(x, now, o) :
                        o \in LoopOrders(DOMAIN x.closingItems,
                                {id \in DOMAIN x.closingItems :
                                   now - x.closingItems[id] >= transitionDuration})}
                     : x \in S2}
        S4 == {addOrUpdate(v, x, t, focusedWorkspaceID, now) : x \in S3}
        S5 == IF v # "r6" THEN S4
              ELSE UNION {{processPendingBracketUpdates(x, focusedWorkspaceID, now, o) :
                             o \in LoopOrders(DOMAIN x.pendingBracketUpdates,
                                     {w \in DOMAIN x.pendingBracketUpdates :
                                        ~hasAnimatingWindows(x, w,
                                            x.pendingBracketUpdates[w], now)})}
                          : x \in S4}
    IN {setRenderedItems(x, newItems) : x \in S5}

\* renderWithErrorRecovery (r4) when the closure that adds the checker and
\* the global spacer panics where it builds the spacer item: its recover
\* logs the panic, the checker is in the batch, the spacer is not, and the
\* function goes on with the workspaces.
faultedAddOrUpdate(it, t, focusedWorkspaceID, now) ==
  renderMonitors("r4",
                 IF aerospaceCheckerItemName \notin it.renderedItems
                 THEN checker(it) ELSE it,
                 t, 1, focusedWorkspaceID, now)

\* renderWithErrorRecovery (r4) on the non-nil snapshot t with that fault:
\* the phases before and after the faulted closure run as in render, and
\* the function ends with item.renderedItems = newItems and a nil error.
renderFaulted(item, batches, t, focusedWorkspaceID, now) ==
  LET newItems == TargetSet("r4", t)
      gone == {id \in item.renderedItems :
                 id \notin newItems /\ ~Has(item.closingItems, id)}
      S1 == {removeStaleBrackets(Working(item, batches), newItems, o) :
               o \in LoopOrders(DOMAIN item.workspaceWindowIDs,
                       {w \in DOMAIN item.workspaceWindowIDs :
                          /\ getSketchybarBracketID(w) \in item.renderedItems
                          /\ getSketchybarBracketID(w) \notin newItems})}
      S2 == UNION {{startClosing(x, newItems, now, o) :
                      o \in LoopOrders(item.renderedItems,
                              {id \in gone : isBracketItem(id) \/ isWindowItem(id)})}
                   : x \in S1}
      S3 == UNION {{expireClosing(x, now, o) :
                      o \in LoopOrders(DOMAIN x.closingItems,
                              {id \in DOMAIN x.closingItems :
                                 now - x.closingItems[id] >= transitionDuration})}
                   : x \in S2}
  IN {setRenderedItems(faultedAddOrUpdate(x, t, focusedWorkspaceID, now), newItems)
      : x \in S3}


\* ------------------------------------- the event driven item (aerospace.go)
\* `ev' is the item during a handler of aerospace.go: item.windowIDs, the
\* batch built so far, the workspaces marked in workspacesNeedingUpdate and
\* whether an error is returned.
Handling(windowIDs, batches) ==
  [windowIDs |-> windowIDs, batches |-> batches, need |-> {}, err |-> FALSE]

RECURSIVE Concat(_)
Concat(ss) == IF ss = <<>> THEN <<>> ELSE Head(ss) \o Concat(Tail(ss))

\* The iterations of
\*   for monitor { for workspace { if no icon: continue; for windowID {...}}}
\* in order.
windowsOfWorkspace(monitor, workspace) ==
  [j \in 1..Len(workspace.Windows) |->
     [monitor |-> monitor.Monitor, workspace |-> workspace.Workspace,
      windowID |-> workspace.Windows[j]]]

windowsOfMonitor(monitor, vis) ==
  Concat([i \in 1..Len(vis) |-> windowsOfWorkspace(monitor, vis[i])])

windowVisits(t) ==
  Concat([m \in 1..Len(t.Monitors) |->
            windowsOfMonitor(t.Monitors[m], visibleWorkspaces(t.Monitors[m]))])

\* tree.IndexedWorkspaces[workspaceID]: the workspaces of that name.
IndexedWorkspaces(t, workspaceID) ==
  UNION {{t.Monitors[m].Workspaces[i] : i \in
            {j \in 1..Len(t.Monitors[m].Workspaces) :
               t.Monitors[m].Workspaces[j].Workspace = workspaceID}}
         : m \in 1..Len(t.Monitors)}

removeWindow(ev, windowID) ==
  IF Has(ev.windowIDs, windowID)
  THEN batch([ev EXCEPT !.windowIDs = Delete(@, windowID)],
             Remove(getSketchybarWindowID(windowID)))
  ELSE ev

addWindowToSketchybar(ev, isFocusedWorkspace, monitorID, workspaceID, windowID) ==
  batch(batch([ev EXCEPT !.windowIDs = Put(@, windowID, workspaceID)],
              AddItem(getSketchybarWindowID(windowID))),
        SetItem(getSketchybarWindowID(windowID), FALSE,
                windowToSketchybar(isFocusedWorkspace, monitorID)))

\* aerospace.go: the bracket is removed, and added again with the workspace
\* item and the windows the tree lists when there are any.
recreateBracket(ev, workspace, isFocused) ==
  batch(batch(batch(ev, Remove(getSketchybarBracketID(workspace.Workspace))),
              AddBracket(getSketchybarBracketID(workspace.Workspace),
                         <<getSketchybarWorkspaceID(workspace.Workspace)>>
                         \o [j \in 1..Len(workspace.Windows) |->
                               getSketchybarWindowID(workspace.Windows[j])])),
        SetItem(getSketchybarBracketID(workspace.Workspace), FALSE,
                [ItemOptions EXCEPT !.Drawing = "on",
                                    !.focused = getWorkspaceColors(isFocused)]))

updateWorkspaceBracketOf(ev, t, workspaceID, isFocused) ==
  IF t.nil THEN ev
  ELSE IF \A workspace \in IndexedWorkspaces(t, workspaceID) :
            Len(workspace.Windows) = 0
    THEN batch(ev, Remove(getSketchybarBracketID(workspaceID)))
    ELSE recreateBracket(ev, CHOOSE workspace \in IndexedWorkspaces(t, workspaceID) :
                                 Len(workspace.Windows) > 0, isFocused)

\* for workspaceID := range workspacesNeedingUpdate  (visited in `order')
RECURSIVE updateMarkedBrackets(_, _, _, _)
updateMarkedBrackets(ev, t, focusedWorkspaceID, order) ==
  IF order = <<>> THEN ev
  ELSE updateMarkedBrackets(
         updateWorkspaceBracketOf(ev, t, Head(order), Head(order) = focusedWorkspaceID),
         t, focusedWorkspaceID, Tail(order))

RECURSIVE updateWindowVisibility(_, _, _)
updateWindowVisibility(ev, focusedWorkspaceID, visits) ==
  IF visits = <<>> THEN ev
  ELSE updateWindowVisibility(
         batch(ev, SetItem(getSketchybarWindowID(Head(visits).windowID), FALSE,
                 [ItemOptions EXCEPT
                    !.Width = getWindowVisibility(
                                Head(visits).workspace = focusedWorkspaceID).width,
                    !.Drawing = getWindowVisibility(
                                  Head(visits).workspace = focusedWorkspaceID).show])),
         focusedWorkspaceID, Tail(visits))

\* CheckTree, a window the item knows under another workspace.
moveWindow(ev, visit, isFocusedWorkspace) ==
  batch(batch(batch(
    [ev EXCEPT !.need = @ \cup {ev.windowIDs[visit.windowID], visit.workspace},
               !.windowIDs = Put(@, visit.windowID, visit.workspace)],
    SetItem(getSketchybarWindowID(visit.windowID), FALSE,
            windowToSketchybar(isFocusedWorkspace, visit.monitor))),
    Move(getSketchybarWindowID(visit.windowID),
         getSketchybarWorkspaceID(visit.workspace))),
    SetItem(getSketchybarWindowID(visit.windowID), FALSE,
            [ItemOptions EXCEPT !.Display = Itoa(visit.monitor)]))

\* CheckTree, a window the item does not know.
addWindow(ev, visit, isFocusedWorkspace) ==
  [batch(addWindowToSketchybar(ev, isFocusedWorkspace, visit.monitor,
                               visit.workspace, visit.windowID),
         Move(getSketchybarWindowID(visit.windowID),
              getSketchybarWorkspaceID(visit.workspace)))
   EXCEPT !.need = @ \cup {visit.workspace}]

\* CheckTree, the body of `for _, windowID := range workspace.Windows'.
checkWindow(ev, t, visit, isFocusedWorkspace) ==
  IF visit.windowID \notin t.IndexedWindows THEN ev
  ELSE IF ~Has(ev.windowIDs, visit.windowID)
    THEN addWindow(ev, visit, isFocusedWorkspace)
  ELSE IF ev.windowIDs[visit.windowID] # visit.workspace
    THEN moveWindow(ev, visit, isFocusedWorkspace)
  ELSE ev

RECURSIVE checkWindows(_, _, _, _)
checkWindows(ev, t, focusedWorkspaceID, visits) ==
  IF visits = <<>> THEN ev
  ELSE checkWindows(
         checkWindow(ev, t, Head(visits), Head(visits).workspace = focusedWorkspaceID),
         t, focusedWorkspaceID, Tail(visits))

\* CheckTree: for windowID := range item.windowIDs  (visited in `order')
RECURSIVE removeMissingWindows(_, _, _)
removeMissingWindows(ev, t, order) ==
  IF order = <<>> THEN ev
  ELSE removeMissingWindows(
         IF Head(order) \notin t.IndexedWindows
         THEN [removeWindow(ev, Head(order)) EXCEPT
                 !.need = @ \cup {ev.windowIDs[Head(order)]}]
         ELSE ev,
         t, Tail(order))

\* CheckTree after the scan of the tree: removal, visibility, brackets.
checkTreeBrackets(ev, t, focusedWorkspaceID) ==
  {updateMarkedBrackets(ev, t, focusedWorkspaceID, o) : o \in Orders(ev.need)}

checkTreeRemovals(ev, t, focusedWorkspaceID) ==
  UNION {checkTreeBrackets(
           updateWindowVisibility(removeMissingWindows(ev, t, o),
                                  focusedWorkspaceID, windowVisits(t)),
           t, focusedWorkspaceID)
         : o \in LoopOrders(DOMAIN ev.windowIDs,
                            (DOMAIN ev.windowIDs) \ t.IndexedWindows)}

\* CheckTree on the refreshed snapshot t: the set of results, one per visiting
\* order of the map loops.
CheckTree(windowIDs, batches, t, focusedWorkspaceID) ==
  IF t.nil THEN {[Handling(windowIDs, batches) EXCEPT !.err = TRUE]}
  ELSE checkTreeRemovals(
         checkWindows(Handling(windowIDs, batches), t, focusedWorkspaceID,
                      windowVisits(t)),
         t, focusedWorkspaceID)

\* applyTree, the windows of a workspace.
RECURSIVE applyWindows(_, _, _, _, _, _)
applyWindows(ev, t, monitor, workspace, isFocusedWorkspace, j) ==
  IF j > Len(workspace.Windows) THEN ev
  ELSE applyWindows(
         IF workspace.Windows[j] \notin t.IndexedWindows THEN ev
         ELSE addWindowToSketchybar(ev, isFocusedWorkspace, monitor.Monitor,
                                    workspace.Workspace, workspace.Windows[j]),
         t, monitor, workspace, isFocusedWorkspace, j + 1)

\* addWorkspaceBracket of aerospace.go: the members as collected, the slot of
\* a window missing from IndexedWindows left empty.
addWorkspaceBracketOf(ev, isFocusedWorkspace, workspaceID, sketchybarWindowIDs) ==
  batch(batch(ev, AddBracket(getSketchybarBracketID(workspaceID),
                             <<getSketchybarWorkspaceID(workspaceID)>>
                             \o sketchybarWindowIDs)),
        SetItem(getSketchybarBracketID(workspaceID), FALSE,
                [ItemOptions EXCEPT !.Drawing = "on",
                   !.focused = getWorkspaceColors(isFocusedWorkspace)]))

applyBracket(ev, t, workspace, isFocusedWorkspace) ==
  IF Len(workspace.Windows) > 0
  THEN addWorkspaceBracketOf(ev, isFocusedWorkspace, workspace.Workspace,
                             collectWindowIDs("r6", t, workspace.Windows))
  ELSE ev

applySpacer(ev, workspaceID, isLast) ==
  IF isLast THEN ev
  ELSE batch(batch(ev, AddItem(getSketchybarSpacerID(workspaceID))),
             SetItem(getSketchybarSpacerID(workspaceID), FALSE,
                     [ItemOptions EXCEPT !.Width = ItemSpacing * 2]))

\* applyTree, the body of `for i, workspace := range visibleWorkspaces'.
applyWorkspace(ev, t, monitor, workspace, isFocusedWorkspace, isLast) ==
  IF workspace.Workspace \notin iconsWorkspace THEN [ev EXCEPT !.err = TRUE]
  ELSE applySpacer(
         applyBracket(
           applyWindows(
             batch(batch(ev, AddItem(getSketchybarWorkspaceID(workspace.Workspace))),
                   SetItem(getSketchybarWorkspaceID(workspace.Workspace), FALSE,
                           workspaceToSketchybar(isFocusedWorkspace, Len(t.Monitors),
                             monitor.Monitor, workspace.Workspace).opts)),
             t, monitor, workspace, isFocusedWorkspace, 1),
           t, workspace, isFocusedWorkspace),
         workspace.Workspace, isLast)

RECURSIVE applyWorkspaces(_, _, _, _, _, _)
applyWorkspaces(ev, t, monitor, vis, i, focusedSpaceID) ==
  IF i > Len(vis) THEN ev
  ELSE applyWorkspaces(
         applyWorkspace(ev, t, monitor, vis[i], focusedSpaceID = vis[i].Workspace,
                        i = Len(vis)),
         t, monitor, vis, i + 1, focusedSpaceID)

RECURSIVE applyMonitors(_, _, _, _)
applyMonitors(ev, t, m, focusedSpaceID) ==
  IF m > Len(t.Monitors) THEN ev
  ELSE applyMonitors(
         applyWorkspaces(ev, t, t.Monitors[m], visibleWorkspaces(t.Monitors[m]),
                         1, focusedSpaceID),
         t, m + 1, focusedSpaceID)

applyTree(windowIDs, batches, t, focusedSpaceID) ==
  IF t.nil THEN [Handling(windowIDs, batches) EXCEPT !.err = TRUE]
  ELSE applyMonitors(
         batch(batch(Handling(windowIDs, batches), AddItem(aerospaceSpacerItemName)),
               SetItem(aerospaceSpacerItemName, FALSE,
                       [ItemOptions EXCEPT !.Width = ItemSpacing * 2])),
         t, 1, focusedSpaceID)

\* AerospaceItem.Init of aerospace.go: applyTree, then the checker item.
initChecker(ev) == IF ev.err THEN ev ELSE checker(ev)

initItem(windowIDs, batches, t, focusedSpaceID) ==
  initChecker(applyTree(windowIDs, batches, t, focusedSpaceID))

\* handleWorkspaceChange, first loop: a known window under another workspace.
RECURSIVE changeWindows(_, _, _)
changeWindows(ev, t, visits) ==
  IF visits = <<>> THEN ev
  ELSE changeWindows(
         IF /\ Head(visits).windowID \in t.IndexedWindows
            /\ Has(ev.windowIDs, Head(visits).windowID)
            /\ ev.windowIDs[Head(visits).windowID] # Head(visits).workspace
         THEN batch(batch(
                [ev EXCEPT !.need = @ \cup {ev.windowIDs[Head(visits).windowID],
                                            Head(visits).workspace},
                           !.windowIDs = Put(@, Head(visits).windowID,
                                             Head(visits).workspace)],
                Move(getSketchybarWindowID(Head(visits).windowID),
                     getSketchybarWorkspaceID(Head(visits).workspace))),
                SetItem(getSketchybarWindowID(Head(visits).windowID), FALSE,
                        [ItemOptions EXCEPT !.Display = Itoa(Head(visits).monitor)]))
         ELSE ev,
         t, Tail(visits))

\* handleWorkspaceChange, last loop: the windows of one workspace.
RECURSIVE focusWindows(_, _, _, _, _, _)
focusWindows(ev, t, monitor, workspace, isFocusedWorkspace, j) ==
  IF j > Len(workspace.Windows) THEN ev
  ELSE focusWindows(
         IF workspace.Windows[j] \notin t.IndexedWindows THEN ev
         ELSE batch(ev, SetItem(getSketchybarWindowID(workspace.Windows[j]), TRUE,
                                windowToSketchybar(isFocusedWorkspace, monitor.Monitor))),
         t, monitor, workspace, isFocusedWorkspace, j + 1)

\* handleWorkspaceChange, last loop: workspace item, bracket, windows.
focusWorkspace(ev, t, monitor, workspace, isFocusedWorkspace) ==
  focusWindows(
    batch(batch(ev, SetItem(getSketchybarWorkspaceID(workspace.Workspace), TRUE,
                            [ItemOptions EXCEPT
                               !.focused = getWorkspaceColors(isFocusedWorkspace)])),
          SetItem(getSketchybarBracketID(workspace.Workspace), TRUE,
                  [ItemOptions EXCEPT
                     !.focused = getWorkspaceColors(isFocusedWorkspace)])),
    t, monitor, workspace, isFocusedWorkspace, 1)

RECURSIVE focusWorkspaces(_, _, _, _, _, _)
focusWorkspaces(ev, t, monitor, vis, i, focusedWorkspaceID) ==
  IF i > Len(vis) THEN ev
  ELSE focusWorkspaces(
         focusWorkspace(ev, t, monitor, vis[i], vis[i].Workspace = focusedWorkspaceID),
         t, monitor, vis, i + 1, focusedWorkspaceID)

RECURSIVE focusMonitors(_, _, _, _)
focusMonitors(ev, t, m, focusedWorkspaceID) ==
  IF m > Len(t.Monitors) THEN ev
  ELSE focusMonitors(
         focusWorkspaces(ev, t, t.Monitors[m], visibleWorkspaces(t.Monitors[m]),
                         1, focusedWorkspaceID),
         t, m + 1, focusedWorkspaceID)

workspaceChangeBrackets(ev, t, focusedWorkspaceID) ==
  {focusMonitors(updateMarkedBrackets(ev, t, focusedWorkspaceID, o),
                 t, 1, focusedWorkspaceID)
   : o \in Orders(ev.need)}

\* handleWorkspaceChange on the refreshed snapshot t; it returns no error.
handleWorkspaceChange(windowIDs, batches, t, focusedWorkspaceID) ==
  IF t.nil THEN {Handling(windowIDs, batches)}
  ELSE workspaceChangeBrackets(
         changeWindows(Handling(windowIDs, batches), t, windowVisits(t)),
         t, focusedWorkspaceID)

\* handleDisplayChange, first loop: the display of the windows of a workspace.
RECURSIVE displayWindows(_, _, _, _)
displayWindows(ev, displayIndex, windows, j) ==
  IF j > Len(windows) THEN ev
  ELSE displayWindows(
         batch(ev, SetItem(getSketchybarWindowID(windows[j]), FALSE,
                           [ItemOptions EXCEPT !.Display = displayIndex])),
         displayIndex, windows, j + 1)

RECURSIVE displayWorkspaces(_, _, _, _)
displayWorkspaces(ev, displayIndex, vis, i) ==
  IF i > Len(vis) THEN ev
  ELSE displayWorkspaces(
         displayWindows(
           batch(ev, SetItem(getSketchybarWorkspaceID(vis[i].Workspace), FALSE,
                             [ItemOptions EXCEPT !.Display = displayIndex])),
           displayIndex, vis[i].Windows, 1),
         displayIndex, vis, i + 1)

RECURSIVE displayMonitors(_, _, _)
displayMonitors(ev, t, m) ==
  IF m > Len(t.Monitors) THEN ev
  ELSE displayMonitors(
         displayWorkspaces(ev,
           getSketchybarDisplayIndex(Len(t.Monitors), t.Monitors[m].Monitor),
           visibleWorkspaces(t.Monitors[m]), 1),
         t, m + 1)

\* handleDisplayChange, second loop: the bracket of every visible workspace.
RECURSIVE displayBrackets(_, _, _, _, _)
displayBrackets(ev, t, m, i, focusedWorkspaceID) ==
  IF m > Len(t.Monitors) THEN ev
  ELSE IF i > Len(visibleWorkspaces(t.Monitors[m]))
    THEN displayBrackets(ev, t, m + 1, 1, focusedWorkspaceID)
  ELSE displayBrackets(
         updateWorkspaceBracketOf(ev, t,
           visibleWorkspaces(t.Monitors[m])[i].Workspace,
           visibleWorkspaces(t.Monitors[m])[i].Workspace = focusedWorkspaceID),
         t, m, i + 1, focusedWorkspaceID)

\* handleDisplayChange: on the snapshot GetTree() returns, without a refresh.
handleDisplayChange(windowIDs, batches, t, focusedWorkspaceID) ==
  IF t.nil THEN Handling(windowIDs, batches)
  ELSE displayBrackets(displayMonitors(Handling(windowIDs, batches), t, 1),
                       t, 1, 1, focusedWorkspaceID)

\* highlightWindows: the colour of the windows of the focused workspace
\* (focused = "app": by comparison with the focused app).
RECURSIVE highlightWindows(_, _, _)
highlightWindows(ev, workspaceID, visits) ==
  IF visits = <<>> THEN ev
  ELSE highlightWindows(
         IF Head(visits).workspace = workspaceID
         THEN batch(ev, SetItem(getSketchybarWindowID(Head(visits).windowID), TRUE,
                                [ItemOptions EXCEPT !.focused = "app"]))
         ELSE ev,
         workspaceID, Tail(visits))

\* handleFrontAppSwitched on the refreshed snapshot t.
handleFrontAppSwitched(windowIDs, batches, t, focusedWorkspaceID) ==
  highlightWindows(Handling(windowIDs, batches), focusedWorkspaceID, windowVisits(t))


\* ---------------------------------------------------------------- the state
VARIABLES
  variant,                \* which revision of the item runs
  initialized,            \* AerospaceItem.Init has run
  tree,                   \* the snapshot GetTree() returns
  focusedWorkspaceID,     \* what GetFocusedWorkspaceID() returns
  now,                    \* time.Now(), in ticks
  renderedItems,          \* item.renderedItems (the keys mapped to true)
  closingItems,           \* item.closingItems: id -> closing start time
  workspaceWindowIDs,     \* item.workspaceWindowIDs: workspace -> window ids
  pendingBracketUpdates,  \* item.pendingBracketUpdates
  bracketStates,          \* item.bracketStates
  bar,                    \* the items of the bar: added and not removed
  windowIDs,              \* item.windowIDs (aerospace.go): window -> workspace
  pollTimer,              \* item.pollTimer: when it fires, NoTime if not pending
  lastPollTime,           \* item.lastPollTime, NoTime for the zero time.Time
  isPolling,              \* item.isPolling
  pc,                     \* goroutine -> the event whose Update it executes
  crashed,                \* the runtime has aborted the process
  calling,                \* goroutine -> where it is in SingleFlightRefreshTree
  queries,                \* the queries of the window manager started so far
  published,              \* the queries that have completed so far
  attempt,                \* handleWithRetry: the attempt at the loop's message
  cancelled,              \* the context of the program is done
  fired,                  \* expired timers whose function waits for pollMutex
  owed,                   \* an ambiguous event was handled, no poll ran since
  fifoRead,               \* the messages the reader has read from the FIFO
  internalCh,             \* listenAttempt: the channel of the raw lines
  ch,                     \* startFifoListener: the channel of the messages
  handling,               \* the last message passed to handleWithRetry
  dropped,                \* the messages dropped at a full channel
  startPc,                \* where FifoServer.Start is
  startAttempt,           \* Start: attempt
  fifoPc,                 \* where Reader.Listen is
  fifoAttempt,            \* Listen: attempt
  listenerDone,           \* startFifoListener: what listenerDone holds
  reader,                 \* the reader goroutine of the last listenAttempt
  closedSend,             \* the channels sent on after they were closed
  call,                   \* handleSafely: its message and what its last call did
  pidFile,                \* the file at PidFilePath: <<pid>>, or NoFile
  instance                \* where runStartCmd is in each started process

\* The state of the reconciler revisions and of the event driven item.
renderVars ==
  <<renderedItems, closingItems, workspaceWindowIDs, pendingBracketUpdates,
    bracketStates>>

\* The state of the coalesced refresh of the tree.
flightVars == <<calling, queries, published>>

\* The state of the server loop and of the context.
serverVars == <<attempt, cancelled>>

\* The expired timers and the polls that are due.
timerVars == <<fired, owed>>

\* The pid file and the processes of the start command.
fileVars == <<pidFile, instance>>

\* The FIFO, its listener and the server that runs them, and what lies
\* outside the running program.
transportVars ==
  <<fifoRead, internalCh, ch, handling, dropped, startPc, startAttempt, fifoPc,
    fifoAttempt, listenerDone, reader, closedSend, call, fileVars>>

eventVars ==
  <<windowIDs, pollTimer, lastPollTime, isPolling, pc, crashed, flightVars,
    serverVars, timerVars, transportVars>>

vars ==
  <<variant, world, initialized, tree, focusedWorkspaceID, now, renderedItems,
    closingItems, workspaceWindowIDs, pendingBracketUpdates, bracketStates, bar,
    windowIDs, pollTimer, lastPollTime, isPolling, pc, crashed, calling,
    queries, published, attempt, cancelled, fired, owed, fifoRead, internalCh,
    ch, handling, dropped, startPc, startAttempt, fifoPc, fifoAttempt,
    listenerDone, reader, closedSend, call, pidFile, instance>>

\* ----------------------------------------------------------------- the item
Item ==
  [renderedItems |-> renderedItems,
   closingItems |-> closingItems,
   workspaceWindowIDs |-> workspaceWindowIDs,
   pendingBracketUpdates |-> pendingBracketUpdates,
   bracketStates |-> bracketStates]

\* NewAerospaceItem: empty maps.
NewAerospaceItem ==
  [renderedItems |-> {},
   closingItems |-> EmptyMap,
   workspaceWindowIDs |-> EmptyMap,
   pendingBracketUpdates |-> EmptyMap,
   bracketStates |-> EmptyMap]

\* The bar after it has run the batch.
RECURSIVE ApplyBatch(_, _)
ApplyBatch(b, batches) ==
  IF batches = <<>> THEN b
  ELSE LET c == Head(batches)
           b1 == IF c.op \in {"add", "addBracket"} THEN b \cup {c.id}
                 ELSE IF c.op = "remove" THEN b \ {c.id}
                 ELSE b
       IN ApplyBatch(b1, Tail(batches))

\* What Update hands back to its caller: r4 drops the batch of a render that
\* returned an error.
Returned(v, batches, r) == IF v = "r4" /\ r.err THEN batches ELSE r.batches

\* The item and the bar after a render that returned r.
After(r) ==
  [renderedItems |-> r.renderedItems,
   closingItems |-> r.closingItems,
   workspaceWindowIDs |-> r.workspaceWindowIDs,
   pendingBracketUpdates |-> r.pendingBracketUpdates,
   bracketStates |-> r.bracketStates,
   bar |-> ApplyBatch(bar, Returned(variant, InputBatch, r))]

\* No time: a timer that is not pending, the zero time.Time.
NoTime == -1

\* The goroutines that reach the item: the loop of the FIFO server, the
\* periodic job, the goroutine the poll timer starts.
Goroutines == {"loop", "job", "poll"}

\* The focused workspace of a payload, or the one GetFocusedWorkspaceID finds
\* at start-up: a visible workspace, or none of the visible ones.
FocusPayloads == {<<"1">>, <<"2">>, EmptyString}

\* The capacity the exploration gives internalCh and ch, the channels made
\* with make(chan []byte, 100) and make(chan string, 100).
BufferSize == 2

\* The messages the server loop is given in the world "retry": an init
\* message, an update, a message no branch of handleSafely takes.
Messages == {<<"init">>, <<"update", "x">>, <<"other">>}

\* What ch holds when the server loop starts in the world "retry": up to
\* BufferSize messages in the order they were read.
Channels ==
  UNION {[1..k -> Messages] : k \in 1..BufferSize}

\* No call of handleSafely: no message is in hand.
NoCall == [msg |-> <<>>, body |-> "none", err |-> "none"]

\* The instances of the program the exploration starts; instance i runs
\* as the process with pid i.
MaxInstances == 3

\* No file at PidFilePath; a file is the sequence of the one pid in it.
NoFile == <<>>

InitFor(v, w) ==
  /\ variant = v
  /\ world = w
  /\ initialized = FALSE
  /\ tree = NilTree
  /\ focusedWorkspaceID \in FocusPayloads
  /\ now = 0
  /\ renderedItems = NewAerospaceItem.renderedItems
  /\ closingItems = NewAerospaceItem.closingItems
  /\ workspaceWindowIDs = NewAerospaceItem.workspaceWindowIDs
  /\ pendingBracketUpdates = NewAerospaceItem.pendingBracketUpdates
  /\ bracketStates = NewAerospaceItem.bracketStates
  /\ bar = {}
  /\ windowIDs = EmptyMap
  /\ pollTimer = NoTime
  /\ lastPollTime = NoTime
  /\ isPolling = FALSE
  /\ pc = [g \in Goroutines |-> "idle"]
  /\ crashed = FALSE
  /\ calling = [g \in Goroutines |-> "no"]
  /\ queries = 0
  /\ published = 0
  /\ attempt = 0
  /\ cancelled = FALSE
  /\ fired = 0
  /\ owed = FALSE
  /\ ch \in IF w = "retry"
            THEN {[i \in DOMAIN c |-> [n |-> i, data |-> c[i]]] : c \in Channels}
            ELSE {<<>>}
  /\ fifoRead = Len(ch)
  /\ internalCh = <<>>
  /\ handling = 0
  /\ dropped = {}
  /\ startPc = IF w = "retry" THEN "listening" ELSE "top"
  /\ startAttempt = 1
  /\ fifoPc = IF w = "retry" THEN "reading" ELSE "idle"
  /\ fifoAttempt = 1
  /\ listenerDone = "empty"
  /\ reader = IF w = "retry" THEN "reading" ELSE "none"
  /\ closedSend = {}
  /\ call = NoCall
  /\ pidFile = NoFile
  /\ instance = [i \in 1..MaxInstances |-> "off"]

Init == InitFor("r6", "windows")
Init005 == InitFor("r5", "windows")
Init004 == InitFor("r4", "windows")
InitMove == \E v \in {"r6", "r5", "r4"} : InitFor(v, "move")

\* SingleFlightRefreshTree: a successful query publishes a new snapshot, a
\* failed one keeps the previous one.
Refreshed == SnapshotsOf(world) \cup {tree}

\* The time between two cycles.
Elapsed == 0..(MaxTime - now)

\* One call of render on the refreshed snapshot t, dt after the previous one,
\* with the focus already set (focusedWorkspaceID').
Reconcile(t, dt) ==
  /\ now' = now + dt
  /\ tree' = t
  /\ \E r \in {After(x) : x \in render(variant, Item, InputBatch, t,
                                        focusedWorkspaceID', now + dt)} :
       /\ renderedItems' = r.renderedItems
       /\ closingItems' = r.closingItems
       /\ workspaceWindowIDs' = r.workspaceWindowIDs
       /\ pendingBracketUpdates' = r.pendingBracketUpdates
       /\ bracketStates' = r.bracketStates
       /\ bar' = r.bar
  /\ UNCHANGED eventVars

\* AerospaceItem.Init
ItemInit(t, dt) ==
  /\ ~initialized
  /\ initialized' = TRUE
  /\ focusedWorkspaceID' = focusedWorkspaceID
  /\ Reconcile(t, dt)
  /\ UNCHANGED <<variant, world>>

\* AerospaceItem.Update, aerospace_workspace_change with a decodable payload.
UpdateWorkspaceChange(focused, t, dt) ==
  /\ initialized
  /\ focusedWorkspaceID' = focused
  /\ Reconcile(t, dt)
  /\ UNCHANGED <<variant, world, initialized>>

\* AerospaceItem.Update, aerospace_workspace_change with a payload that
\* json.Unmarshal rejects: r6 and r5 return the error, r4 logs it and renders.
UpdateMalformed(t, dt) ==
  /\ initialized
  /\ IF variant = "r4"
     THEN /\ focusedWorkspaceID' = focusedWorkspaceID
          /\ Reconcile(t, dt)
          /\ UNCHANGED <<variant, world, initialized>>
     ELSE /\ t = tree /\ dt = 0
          /\ UNCHANGED vars

\* AerospaceItem.Update, any other event (front_app_switched,
\* aerospace_refresh, space_windows_change, ...): render.
UpdateOther(t, dt) ==
  /\ initialized
  /\ focusedWorkspaceID' = focusedWorkspaceID
  /\ Reconcile(t, dt)
  /\ UNCHANGED <<variant, world, initialized>>

Next ==
  \/ \E t \in Refreshed, dt \in Elapsed : ItemInit(t, dt)
  \/ \E f \in FocusPayloads, t \in Refreshed, dt \in Elapsed :
       UpdateWorkspaceChange(f, t, dt)
  \/ \E t \in Refreshed, dt \in Elapsed : UpdateMalformed(t, dt)
  \/ \E t \in Refreshed, dt \in Elapsed : UpdateOther(t, dt)

\* AerospaceItem.Update (r4), any event, with a panic inside the render on
\* the non-nil snapshot t: every recover of part_004 logs and lets the
\* function go on, Update returns what the render built.
UpdateFault(t, dt) ==
  /\ initialized /\ variant = "r4" /\ ~t.nil
  /\ now' = now + dt
  /\ tree' = t
  /\ \E r \in {After(x) : x \in renderFaulted(Item, InputBatch, t,
                                                focusedWorkspaceID, now + dt)} :
       /\ renderedItems' = r.renderedItems
       /\ closingItems' = r.closingItems
       /\ workspaceWindowIDs' = r.workspaceWindowIDs
       /\ pendingBracketUpdates' = r.pendingBracketUpdates
       /\ bracketStates' = r.bracketStates
       /\ bar' = r.bar
  /\ UNCHANGED <<variant, world, initialized, focusedWorkspaceID>>
  /\ UNCHANGED eventVars

NextFault ==
  \/ Next
  \/ \E t \in Refreshed, dt \in Elapsed : UpdateFault(t, dt)

\* The target set alone (phase 1 of render): newItems of the snapshot t.
ComputeTargetSet(t) ==
  /\ tree' = t
  /\ renderedItems' = TargetSet(variant, t)
  /\ UNCHANGED <<variant, world, initialized, focusedWorkspaceID, now,
                 closingItems, workspaceWindowIDs, pendingBracketUpdates,
                 bracketStates, bar>>
  /\ UNCHANGED eventVars

NextIds == \E t \in SnapshotsOf(world) : ComputeTargetSet(t)

\* ---------------------------------------------- the event driven item: steps
\* The instants at which the exploration looks at the clock.
Instants ==
  IF world = "poll"
  THEN {0, pollDebounce, pollDelay, pollDelay + pollDebounce,
        2 * pollDelay, 2 * pollDelay + pollDebounce}
  ELSE {0, pollDelay}

\* time.Since(t) at the instant `at'; the zero time is long ago.
Since(at, t) == IF t = NoTime THEN at + pollDebounce ELSE at - t

\* startDelayedPoll: the pending timer is stopped; unless the last poll
\* started less than pollDebounce ago a new one is set, pollDelay from now.
startDelayedPoll(at, last) ==
  IF Since(at, last) < pollDebounce THEN NoTime ELSE at + pollDelay

\* The handlers of Update that read or write item.windowIDs.
MapHandlers == {"space_windows_change", "workspace_change"}

InUpdate(g) == pc[g] \notin {"idle", "spawned", "stopped"}

\* Another goroutine is inside a handler that uses item.windowIDs.
Overlaps(g) ==
  /\ pc[g] \in MapHandlers
  /\ \E h \in Goroutines \ {g} : pc[h] \in MapHandlers

\* Config.Update, through which the loop and the job reach the item, lets one
\* caller in at a time.
ConfigFree == ~InUpdate("loop") /\ ~InUpdate("job")

\* The events the loop of the server hands to Update; "malformed" is
\* aerospace_workspace_change with a payload json.Unmarshal rejects.
LoopEvents ==
  {"workspace_change", "malformed", "space_windows_change", "display_change",
   "front_app_switched", "aerospace_refresh"}

\* AerospaceItem.Init of aerospace.go, on the snapshot t of the start-up.
EventInit(t) ==
  /\ variant = "ev" /\ ~initialized /\ ~crashed
  /\ initialized' = TRUE
  /\ tree' = t
  /\ \E r \in {initItem(windowIDs, InputBatch, t, focusedWorkspaceID)} :
       /\ windowIDs' = r.windowIDs
       /\ bar' = ApplyBatch(bar, r.batches)
  /\ UNCHANGED <<variant, world, focusedWorkspaceID, now, renderVars,
                 pollTimer, lastPollTime, isPolling, pc, crashed>>
  /\ UNCHANGED flightVars
  /\ UNCHANGED serverVars
  /\ UNCHANGED timerVars
  /\ UNCHANGED transportVars

\* The loop of the server takes a message and enters Update; a workspace
\* change sets the focused workspace of its payload first.
Receive(e, focused) ==
  /\ variant = "ev" /\ initialized /\ ~crashed
  /\ pc["loop"] = "idle" /\ ConfigFree
  /\ pc' = [pc EXCEPT !["loop"] = e]
  /\ focusedWorkspaceID' = IF e = "workspace_change" THEN focused
                           ELSE focusedWorkspaceID
  /\ UNCHANGED <<variant, world, initialized, tree, now, renderVars, bar,
                 windowIDs, pollTimer, lastPollTime, isPolling, crashed>>
  /\ UNCHANGED flightVars
  /\ attempt' = 1
  /\ UNCHANGED cancelled
  /\ UNCHANGED timerVars
  /\ UNCHANGED transportVars

\* The ticker of AerospaceJob: Update with aerospace_refresh.
JobTick ==
  /\ variant = "ev" /\ initialized /\ ~crashed
  /\ pc["job"] = "idle" /\ ConfigFree
  /\ pc' = [pc EXCEPT !["job"] = "aerospace_refresh"]
  /\ UNCHANGED <<variant, world, initialized, tree, focusedWorkspaceID, now,
                 renderVars, bar, windowIDs, pollTimer, lastPollTime, isPolling,
                 crashed>>
  /\ UNCHANGED flightVars
  /\ UNCHANGED serverVars
  /\ UNCHANGED timerVars
  /\ UNCHANGED transportVars

\* The timer of time.AfterFunc expires: it is no longer pending and its
\* function starts in a goroutine of its own, where it waits for pollMutex.
TimerFire ==
  /\ variant = "ev" /\ ~crashed
  /\ pollTimer # NoTime /\ now >= pollTimer
  /\ fired < MaxFired
  /\ pollTimer' = NoTime
  /\ fired' = fired + 1
  /\ UNCHANGED <<variant, world, initialized, tree, focusedWorkspaceID, now,
                 renderVars, bar, windowIDs, lastPollTime, isPolling, pc,
                 crashed, owed>>
  /\ UNCHANGED flightVars
  /\ UNCHANGED serverVars
  /\ UNCHANGED transportVars

\* A function of the timer that starts the goroutine of the poll without
\* looking at isPolling.
TimerRunUnguarded ==
  /\ variant = "ev" /\ ~crashed
  /\ fired > 0
  /\ fired' = fired - 1
  /\ isPolling' = TRUE
  /\ lastPollTime' = now
  /\ pc' = [pc EXCEPT !["poll"] = "spawned"]
  /\ UNCHANGED <<variant, world, initialized, tree, focusedWorkspaceID, now,
                 renderVars, bar, windowIDs, pollTimer, crashed, owed>>
  /\ UNCHANGED flightVars
  /\ UNCHANGED serverVars
  /\ UNCHANGED transportVars

\* The function of the timer, under pollMutex: unless a poll is running it
\* records the start of this one and starts the goroutine of the poll.
TimerRun ==
  /\ variant = "ev" /\ ~crashed
  /\ fired > 0
  /\ fired' = fired - 1
  /\ IF isPolling
     THEN UNCHANGED <<isPolling, lastPollTime, pc>>
     ELSE /\ isPolling' = TRUE
          /\ lastPollTime' = now
          /\ pc' = [pc EXCEPT !["poll"] = "spawned"]
  /\ UNCHANGED <<variant, world, initialized, tree, focusedWorkspaceID, now,
                 renderVars, bar, windowIDs, pollTimer, crashed, owed>>
  /\ UNCHANGED flightVars
  /\ UNCHANGED serverVars
  /\ UNCHANGED transportVars

\* The goroutine of the poll calls syncCallback: Update with a synthetic
\* space_windows_change.
PollCall ==
  /\ variant = "ev" /\ ~crashed
  /\ pc["poll"] = "spawned"
  /\ pc' = [pc EXCEPT !["poll"] = "space_windows_change"]
  /\ UNCHANGED <<variant, world, initialized, tree, focusedWorkspaceID, now,
                 renderVars, bar, windowIDs, pollTimer, lastPollTime, isPolling,
                 crashed>>
  /\ UNCHANGED flightVars
  /\ UNCHANGED serverVars
  /\ owed' = FALSE
  /\ UNCHANGED fired
  /\ UNCHANGED transportVars

\* The batch a caller passes to Update.
BatchOf(g) == IF g = "poll" THEN <<>> ELSE InputBatch

\* The results of the handler of event e on the snapshot t, and whether
\* Update goes on to startDelayedPoll.
Handled(e, g, t) ==
  CASE e = "space_windows_change" ->
         {[r |-> x, poll |-> ~x.err] :
            x \in CheckTree(windowIDs, BatchOf(g), t, focusedWorkspaceID)}
    [] e = "workspace_change" ->
         {[r |-> x, poll |-> ~t.nil] :
            x \in handleWorkspaceChange(windowIDs, BatchOf(g), t, focusedWorkspaceID)}
    [] e = "display_change" ->
         {[r |-> handleDisplayChange(windowIDs, BatchOf(g), t, focusedWorkspaceID),
           poll |-> TRUE]}
    [] e = "front_app_switched" ->
         {[r |-> handleFrontAppSwitched(windowIDs, BatchOf(g), t, focusedWorkspaceID),
           poll |-> TRUE]}
    [] OTHER -> {[r |-> Handling(windowIDs, BatchOf(g)), poll |-> FALSE]}

\* The snapshot the handler of e works on: display_change reads the one
\* there is; the others refresh; malformed and the aerospace_refresh of
\* the job read none.
Refreshes(e, g) ==
  \/ e \in {"space_windows_change", "workspace_change", "front_app_switched"}
  \/ (e = "aerospace_refresh" /\ g = "loop")

SnapshotsFor(e, g) == IF Refreshes(e, g) THEN Refreshed ELSE {tree}

\* The events after which Update calls startDelayedPoll.
Ambiguous ==
  {"workspace_change", "space_windows_change", "display_change",
   "front_app_switched"}

\* handleWithRetry: a message whose handling returned an error is handled
\* again, maxRetries attempts in all; the payload json.Unmarshal rejects
\* fails every time.
Retries(g) == g = "loop" /\ pc[g] = "malformed" /\ attempt < maxRetries

\* The handler of goroutine g runs on the snapshot t and Update returns.
Finish(g, t) ==
  /\ variant = "ev" /\ ~crashed
  /\ InUpdate(g)
  /\ tree' = t
  /\ \E h \in Handled(pc[g], g, t) :
       /\ windowIDs' = h.r.windowIDs
       /\ bar' = ApplyBatch(bar, h.r.batches)
       /\ pollTimer' = IF h.poll THEN startDelayedPoll(now, lastPollTime)
                       ELSE pollTimer
  /\ pc' = IF Retries(g) THEN pc ELSE [pc EXCEPT ![g] = "idle"]
  /\ attempt' = IF g # "loop" THEN attempt
                ELSE IF Retries(g) THEN attempt + 1 ELSE 0
  /\ isPolling' = IF g = "poll" THEN FALSE ELSE isPolling
  /\ UNCHANGED <<variant, world, initialized, focusedWorkspaceID, now,
                 renderVars, lastPollTime, crashed, cancelled, fired>>
  /\ owed' = IF g = "loop" /\ pc[g] \in Ambiguous THEN TRUE ELSE owed
  /\ UNCHANGED transportVars

\* Update returns in goroutine g: the refresh and the handler on the snapshot
\* t it published, in one step.
Return(g, t) ==
  /\ Finish(g, t)
  /\ UNCHANGED flightVars

\* Two goroutines inside handlers that use item.windowIDs: the map is read
\* and written without synchronisation, the runtime may abort the process
\* (concurrent map read and map write).
MapFault(g) ==
  /\ variant = "ev" /\ ~crashed
  /\ Overlaps(g)
  /\ crashed' = TRUE
  /\ UNCHANGED <<variant, world, initialized, tree, focusedWorkspaceID, now,
                 renderVars, bar, windowIDs, pollTimer, lastPollTime, isPolling,
                 pc>>
  /\ UNCHANGED flightVars
  /\ UNCHANGED serverVars
  /\ UNCHANGED timerVars
  /\ UNCHANGED transportVars

\* The clock advances to a later instant.
Tick(at) ==
  /\ variant = "ev" /\ ~crashed
  /\ at > now
  /\ now' = at
  /\ UNCHANGED <<variant, world, initialized, tree, focusedWorkspaceID,
                 renderVars, bar, windowIDs, pollTimer, lastPollTime, isPolling,
                 pc, crashed>>
  /\ UNCHANGED flightVars
  /\ UNCHANGED serverVars
  /\ UNCHANGED timerVars
  /\ UNCHANGED transportVars

NextEvent ==
  \/ \E t \in Refreshed : EventInit(t)
  \/ \E e \in LoopEvents, f \in FocusPayloads : Receive(e, f)
  \/ JobTick
  \/ TimerFire
  \/ TimerRun
  \/ PollCall
  \/ \E g \in Goroutines : \E t \in SnapshotsFor(pc[g], g) : Return(g, t)
  \/ \E g \in Goroutines : MapFault(g)
  \/ \E at \in Instants : Tick(at)

\* ------------------------------------- the event driven item: the refresh
\* SingleFlightRefreshTree, called by goroutine g inside Update: the first
\* caller starts the query of the window manager, a caller that arrives
\* while a query runs waits for that one.
RefreshCall(g) ==
  /\ variant = "ev" /\ ~crashed
  /\ InUpdate(g) /\ Refreshes(pc[g], g)
  /\ calling[g] = "no"
  /\ calling' = [calling EXCEPT ![g] = "waiting"]
  /\ IF queries > published
     THEN queries' = queries
     ELSE queries < MaxQueries /\ queries' = queries + 1
  /\ UNCHANGED <<variant, world, initialized, tree, focusedWorkspaceID, now,
                 renderVars, bar, windowIDs, pollTimer, lastPollTime, isPolling,
                 pc, crashed, published>>
  /\ UNCHANGED serverVars
  /\ UNCHANGED timerVars
  /\ UNCHANGED transportVars

\* The query completes: the snapshot t is published (a failed query keeps
\* the previous one) and every caller waiting for it returns.
QueryDone(t) ==
  /\ variant = "ev" /\ ~crashed
  /\ queries > published
  /\ published' = queries
  /\ tree' = t
  /\ calling' = [g \in Goroutines |->
                   IF calling[g] = "waiting" THEN "done" ELSE calling[g]]
  /\ UNCHANGED <<variant, world, initialized, focusedWorkspaceID, now,
                 renderVars, bar, windowIDs, pollTimer, lastPollTime, isPolling,
                 pc, crashed, queries>>
  /\ UNCHANGED serverVars
  /\ UNCHANGED timerVars
  /\ UNCHANGED transportVars

\* A caller that reads the snapshot without waiting for its refresh.
ReadsAtOnce(g) == InUpdate(g)

\* GetTree after SingleFlightRefreshTree: the caller reads the snapshot once
\* its call of the refresh has returned.
MayRead(g) == calling[g] = "done"

\* The handler of goroutine g reads the published snapshot and Update returns.
FlightReturn(g) ==
  /\ InUpdate(g)
  /\ Refreshes(pc[g], g) => MayRead(g)
  /\ Finish(g, tree)
  /\ calling' = [calling EXCEPT ![g] = "no"]
  /\ UNCHANGED <<queries, published>>
  /\ UNCHANGED transportVars

NextFlight ==
  \/ \E t \in Refreshed : EventInit(t)
  \/ \E e \in LoopEvents, f \in FocusPayloads : Receive(e, f)
  \/ JobTick
  \/ TimerFire
  \/ TimerRun
  \/ PollCall
  \/ \E g \in Goroutines : RefreshCall(g)
  \/ \E t \in Refreshed : QueryDone(t)
  \/ \E g \in Goroutines : FlightReturn(g)
  \/ \E g \in Goroutines : MapFault(g)
  \/ \E at \in Instants : Tick(at)

InitEvent == InitFor("ev", "move")
InitPoll == InitFor("ev", "poll")

SpecEvent == InitEvent /\ [][NextEvent]_vars
SpecPoll == InitPoll /\ [][NextEvent]_vars
SpecFlight == InitEvent /\ [][NextFlight]_vars

\* ------------------------------------ the event driven item: cancellation
\* The context of the program is cancelled.
Cancel ==
  /\ variant = "ev" /\ ~crashed
  /\ ~cancelled
  /\ cancelled' = TRUE
  /\ UNCHANGED <<variant, world, initialized, tree, focusedWorkspaceID, now,
                 renderVars, bar, windowIDs, pollTimer, lastPollTime, isPolling,
                 pc, crashed, attempt>>
  /\ UNCHANGED flightVars
  /\ UNCHANGED timerVars
  /\ UNCHANGED transportVars

\* The goroutines that select on ctx.Done(): the loop of the server and the
\* job.
Selecting == {"loop", "job"}

\* The select of goroutine g takes <-ctx.Done() and the goroutine returns;
\* with a message or a tick ready as well, select may take that one instead.
Stop(g) ==
  /\ variant = "ev" /\ ~crashed
  /\ cancelled /\ pc[g] = "idle"
  /\ pc' = [pc EXCEPT ![g] = "stopped"]
  /\ UNCHANGED <<variant, world, initialized, tree, focusedWorkspaceID, now,
                 renderVars, bar, windowIDs, pollTimer, lastPollTime, isPolling,
                 crashed>>
  /\ UNCHANGED flightVars
  /\ UNCHANGED serverVars
  /\ UNCHANGED timerVars
  /\ UNCHANGED transportVars

NextCancel ==
  \/ \E t \in Refreshed : EventInit(t)
  \/ \E e \in LoopEvents, f \in FocusPayloads : Receive(e, f)
  \/ JobTick
  \/ TimerFire
  \/ TimerRun
  \/ PollCall
  \/ \E g \in Goroutines : \E t \in SnapshotsFor(pc[g], g) : Return(g, t)
  \/ \E g \in Goroutines : MapFault(g)
  \/ \E at \in Instants : Tick(at)
  \/ Cancel
  \/ \E g \in Selecting : Stop(g)

\* ------------------------------------ the event driven item: time goes on
\* The last instant at which the exploration lets a message arrive.
Horizon == CHOOSE x \in Instants : \A y \in Instants : y <= x

\* A message arrives at the loop, up to the horizon.
Arrive(e, focused) ==
  /\ now <= Horizon
  /\ Receive(e, focused)

\* The last instant the exploration follows the clock to: a timer set at the
\* horizon is due then.
End == Horizon + pollDelay

\* The clock reaches the instants, and the instant a pending timer is due.
Deadlines == {at \in Instants \cup {pollTimer} : at <= End}

NextLive ==
  \/ \E t \in Refreshed : EventInit(t)
  \/ \E e \in LoopEvents, f \in FocusPayloads : Arrive(e, f)
  \/ JobTick
  \/ TimerFire
  \/ TimerRun
  \/ PollCall
  \/ \E g \in Goroutines : \E t \in SnapshotsFor(pc[g], g) : Return(g, t)
  \/ \E g \in Goroutines : MapFault(g)
  \/ \E at \in Deadlines : Tick(at)

\* The runtime runs an expired timer and a started goroutine, a handler
\* returns, the clock advances.
Fairness ==
  /\ WF_vars(TimerFire)
  /\ WF_vars(TimerRun)
  /\ WF_vars(PollCall)
  /\ \A g \in Goroutines :
       WF_vars(\E t \in SnapshotsFor(pc[g], g) : Return(g, t))
  /\ WF_vars(\E at \in Deadlines : Tick(at))

InitLive == InitFor("ev", "live")

SpecLive == InitLive /\ [][NextLive]_vars /\ Fairness
SpecCancel == InitLive /\ [][NextCancel]_vars

InitIds == \E v \in {"r6", "r5", "r4"} : InitFor(v, "ids")

InitAll == \E v \in {"r6", "r5", "r4"} : InitFor(v, "windows")

InitHidden == InitFor("ev", "hidden")

InitSpaces == \E v \in {"r6", "r5"} : InitFor(v, "spaces")

Spec == Init /\ [][Next]_vars
SpecAll == InitAll /\ [][Next]_vars
SpecSpaces == InitSpaces /\ [][Next]_vars
SpecHidden == InitHidden /\ [][NextEvent]_vars
InitDisplays == InitFor("ev", "displays")
SpecDisplays == InitDisplays /\ [][NextEvent]_vars
SpecFault == Init004 /\ [][NextFault]_vars
Spec005 == Init005 /\ [][Next]_vars
Spec004 == Init004 /\ [][Next]_vars
SpecMove == InitMove /\ [][Next]_vars
SpecIds == InitIds /\ [][NextIds]_vars

\* ------------------------------------------------ the FIFO and the server
\* The messages the exploration lets the reader read from the FIFO.
MaxMessages == 4

Separator == "¬"

\* What ReadBytes(Separator) returns: the bytes up to and including the
\* separator. A writer that ends its message with a line feed leaves the
\* line feed at the head of the next one.
RawLines == {<<"update", Separator>>, <<"\n", Separator>>}

\* The message of the line data, <<>> for the empty string: the separators
\* at its end are cut, then the line feeds at its head, then the white space
\* at both ends.
nline(data) ==
  LET RECURSIVE TrimRight(_, _)
      TrimRight(s, cutset) ==
        IF s # <<>> /\ s[Len(s)] \in cutset
        THEN TrimRight(SubSeq(s, 1, Len(s) - 1), cutset)
        ELSE s
      RECURSIVE TrimLeft(_, _)
      TrimLeft(s, cutset) ==
        IF s # <<>> /\ Head(s) \in cutset
        THEN TrimLeft(Tail(s), cutset)
        ELSE s
      TrimSpace(s) == TrimLeft(TrimRight(s, {" ", "\n"}), {" ", "\n"})
  IN  TrimSpace(TrimLeft(TrimRight(data, {Separator}), {"\n"}))

\* The state of the item and of the refresh, which the transport leaves
\* alone.
itemVars ==
  <<variant, world, initialized, tree, focusedWorkspaceID, now, renderVars,
    bar, windowIDs, pollTimer, lastPollTime, isPolling, pc, crashed,
    flightVars, timerVars, fileVars>>

\* A channel that hands out first what was sent last.
SentFirst(c, m) == <<m>> \o c

\* The channel c after the send of m: a channel hands out what it holds in
\* the order of the sends.
Sent(c, m) == Append(c, m)

\* FifoServer.Start: the check of the context and the next attempt at the
\* top of the loop, the retry delay, and the fallback mode (its periodic
\* refresh changes nothing here).
Start ==
  /\ variant = "ev"
  /\ \/ /\ startPc = "top"
        /\ IF cancelled
           THEN /\ startPc' = "returned"
                /\ UNCHANGED <<ch, fifoPc, fifoAttempt, listenerDone>>
           ELSE /\ startPc' = "listening"
                /\ ch' = <<>>
                /\ fifoPc' = "top"
                /\ fifoAttempt' = 1
                /\ listenerDone' = "empty"
        /\ UNCHANGED startAttempt
     \/ /\ startPc = "delay"
        /\ \/ /\ cancelled
              /\ startPc' = "returned"
              /\ UNCHANGED startAttempt
           \/ /\ startPc' = "top"
              /\ startAttempt' = startAttempt + 1
        /\ UNCHANGED <<ch, fifoPc, fifoAttempt, listenerDone>>
     \/ /\ startPc = "fallback"
        /\ cancelled
        /\ startPc' = "returned"
        /\ UNCHANGED <<startAttempt, ch, fifoPc, fifoAttempt, listenerDone>>
  /\ UNCHANGED <<fifoRead, internalCh, handling, dropped, attempt, cancelled,
                 reader, closedSend, call>>
  /\ UNCHANGED itemVars

\* A server that gives up after the last failed attempt.
returnsAfterFailure(a) == IF a < maxRetries THEN "delay" ELSE "returned"

\* Start after the listener has failed in attempt a: the retry delay, or the
\* fallback mode after the last attempt.
afterFailure(a) == IF a < maxRetries THEN "delay" ELSE "fallback"

\* The loop of startFifoListener at its select: the context is done, the
\* listener has returned, or a message is taken from ch and handled. What
\* Start does with the result is part of the step.
startFifoListener ==
  /\ variant = "ev"
  /\ startPc = "listening" /\ attempt = 0
  /\ \/ /\ cancelled \/ listenerDone = "error"
        /\ startPc' = afterFailure(startAttempt)
        /\ UNCHANGED <<ch, handling, attempt, call>>
     \/ /\ listenerDone = "nil"
        /\ startPc' = "fallback"
        /\ UNCHANGED <<ch, handling, attempt, call>>
     \/ /\ ch # <<>>
        /\ handling' = Head(ch).n
        /\ call' = [NoCall EXCEPT !.msg = Head(ch).data]
        /\ ch' = Tail(ch)
        /\ attempt' = 1
        /\ UNCHANGED startPc
  /\ UNCHANGED <<fifoRead, internalCh, dropped, startAttempt, fifoPc,
                 fifoAttempt, listenerDone, cancelled, reader, closedSend>>
  /\ UNCHANGED itemVars

\* What the code that handleSafely runs can do: return nil, return an
\* error, panic.
Bodies == {"nil", "error", "panic"}

\* A handler that reports a panic as an error.
handleSafelyStrict(msg, body) ==
  LET StartsWith(prefix) ==
        Len(msg) >= Len(prefix) /\ SubSeq(msg, 1, Len(prefix)) = prefix
  IN  IF body = "panic" THEN "error"
      ELSE IF StartsWith(<<"init">>) THEN "nil"
      ELSE IF StartsWith(<<"update">>) THEN body
      ELSE "nil"

\* handleSafely: what it returns for the message msg when the code it runs
\* does body. The deferred recover turns a panic into nil; an init message
\* returns nil whatever Init returns; a message no branch takes returns nil.
handleSafely(msg, body) ==
  LET StartsWith(prefix) ==
        Len(msg) >= Len(prefix) /\ SubSeq(msg, 1, Len(prefix)) = prefix
  IN  IF body = "panic" THEN "nil"
      ELSE IF StartsWith(<<"init">>) THEN "nil"
      ELSE IF StartsWith(<<"update">>) THEN body
      ELSE "nil"

\* handleWithRetry: handleSafely returns, with an error or without; after an
\* error it is called again, up to maxRetries times in all, and after the
\* last one the message is given up.
handleWithRetry(body) ==
  /\ variant = "ev"
  /\ startPc = "listening" /\ attempt > 0
  /\ attempt' = IF handleSafely(call.msg, body) = "error" /\ attempt < maxRetries
                THEN attempt + 1
                ELSE 0
  /\ call' = IF handleSafely(call.msg, body) = "error" /\ attempt < maxRetries
             THEN [call EXCEPT !.body = body,
                               !.err = handleSafely(call.msg, body)]
             ELSE NoCall
  /\ UNCHANGED <<fifoRead, internalCh, ch, handling, dropped, startPc,
                 startAttempt, fifoPc, fifoAttempt, listenerDone, reader,
                 closedSend>>
  /\ UNCHANGED cancelled
  /\ UNCHANGED itemVars

\* Reader.Listen between two attempts: the check of the context and the
\* opening of the FIFO at the top of the loop, where listenAttempt makes
\* internalCh and starts the reader goroutine, and the retry delay. A panic
\* under Listen is recovered and Listen returns nil: the listener completes.
Listen ==
  /\ variant = "ev"
  /\ \/ /\ fifoPc = "top"
        /\ \/ /\ cancelled
              /\ fifoPc' = "returned"
              /\ listenerDone' = "error"
              /\ UNCHANGED reader
           \/ /\ ~cancelled
              /\ fifoPc' = "reading"
              /\ reader' = "reading"
              /\ UNCHANGED listenerDone
           \/ /\ ~cancelled
              /\ fifoPc' = IF fifoAttempt < maxRetries THEN "delay"
                           ELSE "returned"
              /\ listenerDone' = IF fifoAttempt < maxRetries THEN listenerDone
                                 ELSE "error"
              /\ UNCHANGED reader
        /\ internalCh' = <<>>
        /\ UNCHANGED fifoAttempt
     \/ /\ fifoPc = "delay"
        /\ \/ /\ cancelled
              /\ fifoPc' = "returned"
              /\ listenerDone' = "error"
              /\ UNCHANGED fifoAttempt
           \/ /\ fifoPc' = "top"
              /\ fifoAttempt' = fifoAttempt + 1
              /\ UNCHANGED listenerDone
        /\ UNCHANGED <<internalCh, reader>>
     \/ /\ fifoPc = "reading"
        /\ fifoPc' = "returned"
        /\ listenerDone' = "nil"
        /\ UNCHANGED <<internalCh, fifoAttempt, reader>>
  /\ UNCHANGED <<fifoRead, ch, handling, dropped, startPc, startAttempt,
                 attempt, cancelled, closedSend, call>>
  /\ UNCHANGED itemVars

\* The goroutine of listenAttempt that reads the FIFO: it reads a line and
\* sends it to internalCh unless the channel is full, or ends on a read
\* error or on the context. It runs on when listenAttempt returns, which
\* closes internalCh: a send on the closed channel panics and the recover of
\* the goroutine ends it.
readerGoroutine ==
  /\ variant = "ev"
  /\ reader = "reading"
  /\ \/ /\ fifoRead < MaxMessages
        /\ fifoRead' = fifoRead + 1
        /\ \E data \in RawLines :
             \/ /\ fifoPc = "reading" /\ Len(internalCh) < BufferSize
                /\ internalCh' =
                     Sent(internalCh, [n |-> fifoRead + 1, data |-> data])
                /\ UNCHANGED <<dropped, reader, closedSend>>
             \/ /\ cancelled
                /\ reader' = "done"
                /\ UNCHANGED <<internalCh, dropped, closedSend>>
             \/ /\ fifoPc = "reading" /\ Len(internalCh) >= BufferSize
                /\ ~cancelled
                /\ dropped' = dropped \cup {[n |-> fifoRead + 1, data |-> data]}
                /\ UNCHANGED <<internalCh, reader, closedSend>>
             \/ /\ fifoPc # "reading"
                /\ closedSend' = closedSend \cup {"internalCh"}
                /\ reader' = "done"
                /\ UNCHANGED <<internalCh, dropped>>
     \/ /\ reader' = "done"
        /\ UNCHANGED <<fifoRead, internalCh, dropped, closedSend>>
  /\ UNCHANGED <<ch, handling, startPc, startAttempt, fifoPc, fifoAttempt,
                 listenerDone, attempt, cancelled, call>>
  /\ UNCHANGED itemVars

\* The loop of listenAttempt at its select: the context is done, the reader
\* has ended, or a line is taken from internalCh, trimmed and, unless it is
\* empty, sent to ch unless that channel is full. What Listen does with the
\* result is part of the step. A send after startFifoListener has closed ch
\* panics, the panic is recovered and the message is gone.
listenAttempt ==
  /\ variant = "ev"
  /\ fifoPc = "reading"
  /\ \/ /\ cancelled
        /\ fifoPc' = "returned"
        /\ listenerDone' = "error"
        /\ UNCHANGED <<internalCh, ch, dropped, closedSend>>
     \/ /\ reader = "done" /\ ~cancelled
        /\ fifoPc' = IF fifoAttempt < maxRetries THEN "delay" ELSE "returned"
        /\ listenerDone' = IF fifoAttempt < maxRetries THEN listenerDone
                           ELSE "error"
        /\ UNCHANGED <<internalCh, ch, dropped, closedSend>>
     \/ /\ internalCh # <<>>
        /\ internalCh' = Tail(internalCh)
        /\ \E m \in {[n |-> Head(internalCh).n,
                      data |-> nline(Head(internalCh).data)]} :
             \/ /\ m.data = <<>>
                /\ UNCHANGED <<ch, dropped, closedSend>>
             \/ /\ m.data # <<>> /\ startPc = "listening"
                /\ Len(ch) < BufferSize
                /\ ch' = Sent(ch, m)
                /\ UNCHANGED <<dropped, closedSend>>
             \/ /\ m.data # <<>> /\ cancelled
                /\ UNCHANGED <<ch, dropped, closedSend>>
             \/ /\ m.data # <<>> /\ startPc # "listening"
                /\ closedSend' = closedSend \cup {"ch"}
                /\ UNCHANGED <<ch, dropped>>
             \/ /\ m.data # <<>> /\ startPc = "listening"
                /\ Len(ch) >= BufferSize /\ ~cancelled
                /\ dropped' = dropped \cup {m}
                /\ UNCHANGED <<ch, closedSend>>
        /\ UNCHANGED <<fifoPc, listenerDone>>
  /\ UNCHANGED <<fifoRead, handling, startPc, startAttempt, fifoAttempt,
                 attempt, cancelled, reader, call>>
  /\ UNCHANGED itemVars

NextServer ==
  \/ Start
  \/ startFifoListener
  \/ \E body \in Bodies : handleWithRetry(body)
  \/ Listen
  \/ readerGoroutine
  \/ listenAttempt
  \/ Cancel

\* Start and the loop of the server run on, and a call of the handler
\* returns.
FairServer ==
  /\ WF_vars(Start)
  /\ WF_vars(startFifoListener)
  /\ WF_vars(\E body \in Bodies : handleWithRetry(body))

SpecServer == InitEvent /\ [][NextServer]_vars
SpecServerFair == SpecServer /\ FairServer

\* ------------------------------------------------------------ the pid file
\* The state of the program inside one process, which the start command
\* of another process leaves alone.
processVars ==
  <<variant, world, initialized, tree, focusedWorkspaceID, now, renderVars,
    bar, windowIDs, pollTimer, lastPollTime, isPolling, pc, crashed,
    flightVars, serverVars, timerVars, fifoRead, internalCh, ch, handling,
    dropped, startPc, startAttempt, fifoPc, fifoAttempt, listenerDone, reader,
    closedSend, call>>

\* CreatePidFile in the process i up to its write: the file is there and
\* holds the pid of a live process, and CreatePidFile returns an error,
\* which runStartCmd logs before it goes on; or the file is to be written.
CreatePidFile(i) ==
  /\ instance[i] = "off"
  /\ instance' =
       [instance EXCEPT ![i] =
          IF /\ pidFile # NoFile
             /\ instance[Head(pidFile)] \in {"writing", "running"}
          THEN "running"
          ELSE "writing"]
  /\ UNCHANGED pidFile
  /\ UNCHANGED processVars

\* CreatePidFile in the process i: os.WriteFile of its pid.
WriteFile(i) ==
  /\ instance[i] = "writing"
  /\ pidFile' = <<i>>
  /\ instance' = [instance EXCEPT ![i] = "running"]
  /\ UNCHANGED processVars

\* runStartCmd returns in the process i and its deferred RemovePidFile
\* removes the file; os.Remove fails when there is no file.
RemovePidFile(i) ==
  /\ instance[i] = "running"
  /\ pidFile' = NoFile
  /\ instance' = [instance EXCEPT ![i] = "stopped"]
  /\ UNCHANGED processVars

\* The process i is killed: no deferred call runs.
Killed(i) ==
  /\ instance[i] \in {"writing", "running"}
  /\ instance' = [instance EXCEPT ![i] = "killed"]
  /\ UNCHANGED pidFile
  /\ UNCHANGED processVars

NextStart ==
  \E i \in 1..MaxInstances :
    \/ CreatePidFile(i)
    \/ WriteFile(i)
    \/ RemovePidFile(i)
    \/ Killed(i)

SpecStart == InitEvent /\ [][NextStart]_vars

\* The server loop alone, with the messages of the world "retry" in ch.
InitRetry == InitFor("ev", "retry")

NextRetry ==
  \/ startFifoListener
  \/ \E body \in Bodies : handleWithRetry(body)
  \/ Cancel

SpecRetry == InitRetry /\ [][NextRetry]_vars


\* ------------------------------------------------------------------ claims
\* The visible workspaces of every monitor of t, with their position.
VisibleOf(t) ==
  UNION {{[monitor |-> m, index |-> i, last |-> i = Len(visibleWorkspaces(t.Monitors[m])),
           ws |-> visibleWorkspaces(t.Monitors[m])[i]]
          : i \in 1..Len(visibleWorkspaces(t.Monitors[m]))}
         : m \in 1..Len(t.Monitors)}

\* C1.  Convergence: whatever snapshots, focus values and elapsed times came
\* before, after a render against a non-nil snapshot renderedItems is exactly
\* the target set of that snapshot: the checker, the global spacer and, per
\* visible workspace, the workspace item, the window items, the bracket and
\* the spacer towards the next visible workspace (r5 and r4 also keep a
\* bracket spacer per visible workspace, and the bracket of an empty one).
C1_Target(v, t) ==
  {aerospaceCheckerItemName, aerospaceSpacerItemName}
  \cup {getSketchybarWorkspaceID(x.ws.Workspace) : x \in VisibleOf(t)}
  \cup {getSketchybarWindowID(w) :
          w \in UNION {Range(x.ws.Windows) : x \in VisibleOf(t)}}
  \cup {getSketchybarBracketID(x.ws.Workspace) :
          x \in {y \in VisibleOf(t) : v # "r6" \/ Len(y.ws.Windows) > 0}}
  \cup {getSketchybarSpacerID(x.ws.Workspace) :
          x \in {y \in VisibleOf(t) : ~y.last}}
  \cup {getSketchybarBracketSpacerID(x.ws.Workspace) :
          x \in {y \in VisibleOf(t) : v # "r6"}}

C1_Convergence ==
  (initialized /\ ~tree.nil) => renderedItems = C1_Target(variant, tree)

\* A render has replaced an earlier, different target: something it dropped
\* is still closing.
C1_Witness ==
  /\ initialized /\ ~tree.nil
  /\ \E id \in DOMAIN closingItems : id \notin renderedItems
  /\ renderedItems = C1_Target(variant, tree)

\* The commands of a batch that add an item or a bracket, or remove one.
C2_AddsAndRemoves(batches) ==
  {i \in 1..Len(batches) : batches[i].op \in {"add", "addBracket", "remove"}}

\* C2.  Idempotence: the state was left by a render against (tree,
\* focusedWorkspaceID); a second render against the same snapshot and focus,
\* run at once (no time elapsed), returns a batch that adds nothing and
\* removes nothing.
C2_Idempotence ==
  (initialized /\ ~tree.nil) =>
    \A r \in render(variant, Item, InputBatch, tree, focusedWorkspaceID, now) :
      C2_AddsAndRemoves(r.batches) = {}

\* The tracking entries of workspace w are purged.
C3_Purged(w) ==
  /\ ~Has(workspaceWindowIDs, w)
  /\ ~Has(pendingBracketUpdates, w)
  /\ ~Has(bracketStates, w)

\* C3.  Bracket invariant: after a reconciliation cycle, every visible
\* workspace has its bracket on the bar exactly when the snapshot of the
\* cycle gives it at least one window, and a workspace without windows has no
\* tracking entry left.
C3_BracketInvariant ==
  (initialized /\ ~tree.nil) =>
    \A x \in VisibleOf(tree) :
      /\ getSketchybarBracketID(x.ws.Workspace) \in bar <=> Len(x.ws.Windows) > 0
      /\ Len(x.ws.Windows) = 0 => C3_Purged(x.ws.Workspace)

\* The number of remove commands for id in a batch.
C4_Removes(batches, id) ==
  Cardinality({i \in 1..Len(batches) :
                 batches[i].op = "remove" /\ batches[i].id = id})

\* What the next cycle does with the entries of closingItems: a cycle that
\* starts before the transition time of an entry is over keeps the entry and
\* emits no remove for it; the first cycle that starts later drops the entry,
\* emits exactly one remove for it and leaves it out of renderedItems.  With
\* `relisted' the last cycle is only judged when its snapshot does not list
\* the identifier again.
C4_NextCycle(relisted) ==
  \A id \in DOMAIN closingItems :
    \A t \in Refreshed, f \in FocusPayloads, dt \in Elapsed :
      \A r \in render(variant, Item, InputBatch, t, f, now + dt) :
        IF now + dt - closingItems[id] < transitionDuration
        THEN Has(r.closingItems, id) /\ C4_Removes(r.batches, id) = 0
        ELSE (relisted /\ id \in TargetSet(variant, t))
             \/ /\ ~Has(r.closingItems, id)
                /\ id \notin r.renderedItems
                /\ C4_Removes(r.batches, id) = 1

C5_Entity(kind, ws, win) == [kind |-> kind, ws |-> ws, win |-> win]

C5_Entities(v, t) ==
  {C5_Entity("checker", EmptyString, 0), C5_Entity("global spacer", EmptyString, 0)}
  \cup {C5_Entity("workspace", x.ws.Workspace, 0) : x \in VisibleOf(t)}
  \cup {C5_Entity("bracket", x.ws.Workspace, 0) :
          x \in {y \in VisibleOf(t) : v # "r6" \/ Len(y.ws.Windows) > 0}}
  \cup {C5_Entity("bracket spacer", x.ws.Workspace, 0) :
          x \in {y \in VisibleOf(t) : v # "r6"}}
  \cup {C5_Entity("spacer", x.ws.Workspace, 0) :
          x \in {y \in VisibleOf(t) : ~y.last}}
  \cup {C5_Entity("window", EmptyString, w) :
          w \in UNION {Range(x.ws.Windows) : x \in VisibleOf(t)}}

\* The identifier the code gives an entity.
C5_IdOf(e) ==
  CASE e.kind = "checker" -> aerospaceCheckerItemName
    [] e.kind = "global spacer" -> aerospaceSpacerItemName
    [] e.kind = "workspace" -> getSketchybarWorkspaceID(e.ws)
    [] e.kind = "bracket" -> getSketchybarBracketID(e.ws)
    [] e.kind = "bracket spacer" -> getSketchybarBracketSpacerID(e.ws)
    [] e.kind = "spacer" -> getSketchybarSpacerID(e.ws)
    [] e.kind = "window" -> getSketchybarWindowID(e.win)

C5_Distinct(E) ==
  \A e1 \in E, e2 \in E : C5_IdOf(e1) = C5_IdOf(e2) => e1 = e2

C5_Classified(E) ==
  \A e \in E : /\ isBracketItem(C5_IdOf(e)) <=> e.kind = "bracket"
               /\ isWindowItem(C5_IdOf(e)) <=> e.kind = "window"

\* C5.  No duplicate identifiers: the target set of a snapshot holds one
\* identifier per entity, two entities never share an identifier, and
\* isBracketItem / isWindowItem hold of an identifier exactly when a bracket /
\* a window produced it.
C5_NoDuplicateIdentifiers ==
  ~tree.nil =>
    /\ renderedItems = {C5_IdOf(e) : e \in C5_Entities(variant, tree)}
    /\ C5_Distinct(C5_Entities(variant, tree))
    /\ C5_Classified(C5_Entities(variant, tree))

\* The batch holds the shrink / hide animation of the window item id.
C6_Shrinks(batches, id) ==
  \E i \in 1..Len(batches) :
    /\ batches[i].op = "set" /\ batches[i].id = id /\ batches[i].animate
    /\ batches[i].width = 0 /\ batches[i].drawing = "off"

\* The windows workspace ws has in snapshot t.
C6_WindowsIn(t, ws) ==
  UNION {Range(x.ws.Windows) : x \in {y \in VisibleOf(t) : y.ws.Workspace = ws}}

\* What the cycle r against snapshot t, started at time at, does for the
\* window w that the previous snapshot listed under workspace ws and t does
\* not list.
C6_Observed(r, t, at, ws, w) ==
  /\ C6_Shrinks(r.batches, getSketchybarWindowID(w))
  /\ C4_Removes(r.batches, getSketchybarWindowID(w)) = 0
  /\ C6_WindowsIn(t, ws) = {} => C4_Removes(r.batches, getSketchybarBracketID(ws)) >= 1

\* A cycle that removes a closing window starts at least transitionDuration
\* after the window started closing.
C6_RemovedLate(r, at) ==
  \A id \in DOMAIN closingItems :
    (isWindowItem(id) /\ C4_Removes(r.batches, id) > 0)
      => at - closingItems[id] >= transitionDuration

\* C6.  Window close lifecycle: the cycle that first observes that a rendered
\* window is gone from the snapshot animates it to width 0 / hidden and does
\* not remove it, and removes the bracket of its workspace if no window is
\* left there; the remove of a closing window comes only in a cycle that
\* starts at least transitionDuration after the closing start.
C6_WindowCloseLifecycle ==
  (initialized /\ ~tree.nil) =>
    \A t \in Refreshed, f \in FocusPayloads, dt \in Elapsed :
      \A r \in render(variant, Item, InputBatch, t, f, now + dt) :
        /\ C6_RemovedLate(r, now + dt)
        /\ \A x \in VisibleOf(tree) :
             \A w \in Range(x.ws.Windows) :
               getSketchybarWindowID(w) \notin TargetSet(variant, t)
                 => C6_Observed(r, t, now + dt, x.ws.Workspace, w)

\* The first batch of the item on the snapshot t: Init of aerospace.go, or
\* the render of the reconciler revisions.
C7_FirstBatches(t) ==
  IF variant = "ev"
  THEN {initItem(windowIDs, InputBatch, t, focusedWorkspaceID).batches}
  ELSE {r.batches : r \in render(variant, Item, InputBatch, t,
                                  focusedWorkspaceID, now)}

\* The last value a --set of the batch gives the item: its width, its drawing.
RECURSIVE C7_FinalWidth(_, _)
C7_FinalWidth(b, id) ==
  IF b = <<>> THEN -1
  ELSE IF b[Len(b)].op = "set" /\ b[Len(b)].id = id /\ b[Len(b)].width # -1
    THEN b[Len(b)].width
  ELSE C7_FinalWidth(SubSeq(b, 1, Len(b) - 1), id)

RECURSIVE C7_FinalDrawing(_, _)
C7_FinalDrawing(b, id) ==
  IF b = <<>> THEN ""
  ELSE IF b[Len(b)].op = "set" /\ b[Len(b)].id = id /\ b[Len(b)].drawing # ""
    THEN b[Len(b)].drawing
  ELSE C7_FinalDrawing(SubSeq(b, 1, Len(b) - 1), id)

C7_Adds(b, id) == \E k \in 1..Len(b) : b[k].op = "add" /\ b[k].id = id

C7_AddsBracket(b, workspace) ==
  \E k \in 1..Len(b) :
    /\ b[k].op = "addBracket"
    /\ b[k].id = getSketchybarBracketID(workspace.Workspace)
    /\ Len(b[k].members) = 1 + Len(workspace.Windows)
    /\ b[k].members[1] = getSketchybarWorkspaceID(workspace.Workspace)
    /\ Range(Tail(b[k].members))
         = {getSketchybarWindowID(w) : w \in Range(workspace.Windows)}

C7_Shown(b, workspace) ==
  \A w \in Range(workspace.Windows) :
    /\ C7_FinalWidth(b, getSketchybarWindowID(w)) > 0
    /\ C7_FinalDrawing(b, getSketchybarWindowID(w)) = "on"

C7_Complete(b, workspace, isFocusedWorkspace) ==
  /\ C7_Adds(b, getSketchybarWorkspaceID(workspace.Workspace))
  /\ \A w \in Range(workspace.Windows) : C7_Adds(b, getSketchybarWindowID(w))
  /\ C7_AddsBracket(b, workspace)
  /\ isFocusedWorkspace => C7_Shown(b, workspace)

\* C7: from the empty render state, the batch of the first reconciliation of
\* a snapshot holds, for every visible workspace that has windows, the add of
\* the workspace item, the add of each of its windows and the add of its
\* bracket with the workspace item and exactly these windows as members; the
\* windows of the focused workspace end the batch shown.
C7_FirstRender ==
  ~initialized =>
    \A t \in SnapshotsOf(world) : \A b \in C7_FirstBatches(t) :
      \A vw \in VisibleOf(t) :
        Len(vw.ws.Windows) > 0 =>
          C7_Complete(b, vw.ws, vw.ws.Workspace = focusedWorkspaceID)

\* The batches the next cycle may return on the snapshot t: CheckTree or
\* handleWorkspaceChange of aerospace.go, or the render of the reconciler
\* revisions after any time.
C8_Batches(t) ==
  IF variant = "ev"
  THEN {x.batches : x \in CheckTree(windowIDs, InputBatch, t, focusedWorkspaceID)
                         \cup handleWorkspaceChange(windowIDs, InputBatch, t,
                                                    focusedWorkspaceID)}
  ELSE UNION {{r.batches : r \in render(variant, Item, InputBatch, t,
                                        focusedWorkspaceID, now + dt)}
              : dt \in Elapsed}

\* The item has window w rendered under workspace a.
C8_RenderedUnder(w, a) ==
  IF variant = "ev"
  THEN Has(windowIDs, w) /\ windowIDs[w] = a
  ELSE /\ ~tree.nil
       /\ w \in C6_WindowsIn(tree, a)
       /\ getSketchybarWindowID(w) \in renderedItems

\* The batch removes the bracket of workspace ws and then adds it with the
\* workspace item and the windows t lists for ws.
C8_Recreated(b, t, ws) ==
  \E k \in 1..Len(b) : \E l \in (k + 1)..Len(b) :
    /\ b[k].op = "remove" /\ b[k].id = getSketchybarBracketID(ws)
    /\ b[l].op = "addBracket" /\ b[l].id = getSketchybarBracketID(ws)
    /\ Len(b[l].members) = 1 + Cardinality(C6_WindowsIn(t, ws))
    /\ b[l].members[1] = getSketchybarWorkspaceID(ws)
    /\ Range(Tail(b[l].members))
         = {getSketchybarWindowID(x) : x \in C6_WindowsIn(t, ws)}

C8_Moved(b, t, w, a, z) ==
  /\ \A k \in 1..Len(b) :
       b[k].id = getSketchybarWindowID(w) => b[k].op \notin {"add", "remove"}
  /\ \E k \in 1..Len(b) :
       /\ b[k].op = "move" /\ b[k].id = getSketchybarWindowID(w)
       /\ b[k].after \in {getSketchybarWorkspaceID(z)}
                          \cup {getSketchybarWindowID(x) : x \in C6_WindowsIn(t, z)}
  /\ C8_Recreated(b, t, a)
  /\ C8_Recreated(b, t, z)

\* The moves the next cycle can observe: window w, rendered under a, listed
\* by t under another visible workspace z, with a window left in a.
C8_Moves(t) ==
  {m \in [w : 1..(MaxWindows + 1), a : VisibleNames, z : VisibleNames] :
     /\ m.a # m.z
     /\ C8_RenderedUnder(m.w, m.a)
     /\ m.w \in C6_WindowsIn(t, m.z)
     /\ C6_WindowsIn(t, m.a) # {}}

\* C8: the cycle that observes a rendered window under another visible
\* workspace emits no add and no remove for the window, a move-after into the
\* chain of the new workspace, and a remove followed by an add of the bracket
\* of both workspaces with their new members, when both have a window.
C8_WindowMove ==
  initialized =>
    \A t \in SnapshotsOf(world) : \A m \in C8_Moves(t) : \A b \in C8_Batches(t) :
      C8_Moved(b, t, m.w, m.a, m.z)

\* What a cycle on the nil snapshot returns and whether it leaves the state
\* of the item as it is: CheckTree of aerospace.go, or the render of the
\* reconciler revisions at any later time.
C9_Results ==
  IF variant = "ev"
  THEN {[batches |-> x.batches, err |-> x.err, same |-> x.windowIDs = windowIDs] :
          x \in CheckTree(windowIDs, InputBatch, NilTree, focusedWorkspaceID)}
  ELSE UNION {{[batches |-> r.batches, err |-> r.err,
                same |-> /\ r.renderedItems = renderedItems
                         /\ r.closingItems = closingItems
                         /\ r.workspaceWindowIDs = workspaceWindowIDs] :
                 r \in render(variant, Item, InputBatch, NilTree,
                              focusedWorkspaceID, now + dt)}
              : dt \in Elapsed}

\* C9: a reconciliation that finds no snapshot returns the batch it was given
\* with nothing appended, reports the failure, and leaves renderedItems,
\* closingItems, workspaceWindowIDs and windowIDs as they are.
C9_NilSnapshot ==
  \A x \in C9_Results : x.batches = InputBatch /\ x.err /\ x.same

\* C10: no two goroutines are inside Update of the item at the same time.
C10_Serialized ==
  \A g \in Goroutines : \A h \in Goroutines \ {g} : ~(InUpdate(g) /\ InUpdate(h))

\* ---- C11: refresh coalescing
\* A step of the coalesced refresh: a caller that arrives while a query runs
\* starts none, at most one query runs, a waiting caller returns only in the
\* step that completes its query, together with every other waiting caller,
\* and a handler that refreshes runs only after its call has returned.
C11_Step ==
  /\ \A g \in Goroutines :
       (calling[g] = "no" /\ calling'[g] = "waiting" /\ queries > published)
         => queries' = queries
  /\ queries' - published' \in {0, 1}
  /\ \A g \in Goroutines :
       (calling[g] = "waiting" /\ calling'[g] = "done")
         => /\ published < queries /\ published' = queries
            /\ \A h \in Goroutines : calling[h] = "waiting" => calling'[h] = "done"
  /\ \A g \in Goroutines :
       (InUpdate(g) /\ pc'[g] = "idle" /\ Refreshes(pc[g], g))
         => calling[g] = "done" /\ tree' = tree

C12_Listed(t) == UNION {C6_WindowsIn(t, ws) : ws \in VisibleNames}

\* The batch b has a command op for window w.
C12_Has(b, op, w) ==
  \E k \in 1..Len(b) : b[k].op = op /\ b[k].id = getSketchybarWindowID(w)

\* The batch b reconciles the windows the item knows with the snapshot t: it
\* adds the ones that opened, removes the ones that closed, moves the ones
\* listed under another workspace.
C12_Full(b, t) ==
  /\ \A w \in C12_Listed(t) : ~Has(windowIDs, w) => C12_Has(b, "add", w)
  /\ \A w \in 1..(MaxWindows + 1) :
       (Has(windowIDs, w) /\ w \notin C12_Listed(t)) => C12_Has(b, "remove", w)
  /\ \A w \in C12_Listed(t) :
       (Has(windowIDs, w) /\ w \notin C6_WindowsIn(t, windowIDs[w]))
         => C12_Has(b, "move", w)

\* C12: while Update handles a workspace change with a decodable payload, the
\* focused workspace is already the one of the payload and the batch the call
\* returns is a full reconciliation against the refreshed snapshot: opened
\* windows are added, closed ones removed, moved ones moved.
C12_WorkspaceChange ==
  (variant = "ev" /\ ~crashed /\ pc["loop"] = "workspace_change") =>
    \A t \in Refreshed :
      ~t.nil =>
        \A x \in handleWorkspaceChange(windowIDs, InputBatch, t, focusedWorkspaceID) :
          C12_Full(x.batches, t)

\* ---- C13: malformed payload
\* C13: an Update for a workspace change whose payload cannot be decoded
\* leaves the focused workspace, the snapshot, the render state and the bar
\* as they are: no refresh, no reconciliation, no command.
C13_Malformed ==
  [][(\E t \in Refreshed, dt \in Elapsed : UpdateMalformed(t, dt))
       => UNCHANGED <<focusedWorkspaceID, tree, renderVars, bar>>]_vars

\* ---- C14: generic refresh
\* C14: while Update handles aerospace_refresh, from the job or from the
\* loop, the batch the call returns reconciles the windows the item knows
\* with the latest snapshot: opened windows are added, closed ones removed,
\* moved ones moved.
C14_GenericRefresh ==
  \A g \in {"loop", "job"} :
    (variant = "ev" /\ ~crashed /\ pc[g] = "aerospace_refresh") =>
      \A t \in Refreshed :
        ~t.nil => \A h \in Handled(pc[g], g, t) : C12_Full(h.r.batches, t)

\* ---- C15: the delayed poll is scheduled
\* C15: once the loop has handled an ambiguous event, then, unless a further
\* message arrives, the context is cancelled or the process has aborted, a
\* delayed poll runs after it (or its timer is pending, due after the last
\* instant explored).
C15_PollScheduled ==
  (owed /\ pc["loop"] = "idle")
    ~> (~owed \/ pc["loop"] # "idle" \/ cancelled \/ crashed \/ pollTimer > End)

\* ---- C16: debounce and minimum spacing
\* The loop returns from an ambiguous event that found a timer pending.
C16_Replaces == pc["loop"] \in Ambiguous /\ pc'["loop"] = "idle" /\ pollTimer # NoTime

\* A poll starts after an earlier one.
C16_NextPoll == lastPollTime # NoTime /\ lastPollTime' # lastPollTime

\* C16: an ambiguous event handled while a timer is pending leaves a timer
\* due pollDelay after it, and two consecutive delayed polls start at least
\* pollDebounce apart.
C16_Debounce ==
  [][/\ C16_Replaces => pollTimer' = now + pollDelay
     /\ C16_NextPoll => lastPollTime' - lastPollTime >= pollDebounce]_vars

\* ---- C17: cancellation
\* Goroutine g is outside Update.
C17_Outside(g) == pc[g] \in {"idle", "spawned", "stopped"}

\* C17: once the context is cancelled, neither the job nor the goroutine of
\* a delayed poll enters Update.
C17_Cancellation ==
  [][cancelled =>
       \A g \in {"job", "poll"} : C17_Outside(g) => C17_Outside(g)']_vars

\* ---- C18: needsRecreate
\* The ordered lists of window items a workspace can have.
C18_Lists == UNION {Orders({getSketchybarWindowID(x) : x \in S}) : S \in SUBSET WindowIDs}

\* The bracket handling of a workspace with the window items L emits a remove
\* or an add of the bracket.
C18_Recreates(w, L) ==
  \E c \in Range(handleWorkspaceBracket5(Working(Item, <<>>),
                                         [Workspace |-> w, Windows |-> L], L,
                                         w = focusedWorkspaceID).batches) :
    c.op \in {"remove", "addBracket"}

\* What the bracket-change check of the revision answers for w and L.
C18_Check(w, L) ==
  IF variant = "r6" THEN bracketNeedsUpdate(Item, w, L) ELSE C18_Recreates(w, L)

\* C18: for every workspace w and ordered list L the bracket-change check
\* answers true exactly when no list is recorded for w or the recorded list
\* differs from L.
C18_NeedsRecreate ==
  \A w \in VisibleNames : \A L \in C18_Lists :
    C18_Check(w, L) <=> (~Has(workspaceWindowIDs, w) \/ workspaceWindowIDs[w] # L)

\* ---- C19: bracket recreation and closing windows
\* The results of the next cycle on the snapshot t.
C19_Results(t) ==
  UNION {render(variant, Item, InputBatch, t, focusedWorkspaceID, now + dt)
         : dt \in Elapsed}

\* The snapshot before the cycle lists the window item c under workspace w.
C19_Was(c, w) ==
  /\ ~tree.nil
  /\ \E x \in C6_WindowsIn(tree, w) : c = getSketchybarWindowID(x)

\* The window items that are closing after the cycle and were listed under w.
C19_Closing(r, w) == {c \in DOMAIN r.closingItems : C19_Was(c, w)}

\* The window items that are closing after the cycle and were not listed
\* under another workspace than w.
C19_MaybeClosing(r, w) ==
  {c \in DOMAIN r.closingItems :
     isWindowItem(c) /\ \A z \in VisibleNames \ {w} : ~C19_Was(c, z)}

\* The batch of r adds the bracket of w.
C19_Recreated(r, w) ==
  \E c \in Range(r.batches) :
    c.op = "addBracket" /\ c.id = getSketchybarBracketID(w)

\* The cycle has left the recreation of the bracket of w for later although
\* every window t lists for w was rendered before it.
C19_Deferred(r, t, w) ==
  /\ Has(r.pendingBracketUpdates, w)
  /\ \A x \in C6_WindowsIn(t, w) : getSketchybarWindowID(x) \in renderedItems

\* C19: a cycle adds the bracket of a workspace only when no window that
\* belonged to it is closing, and it defers the recreation for a workspace
\* only when a window that belonged to that workspace is closing.
C19_PerWorkspace ==
  initialized =>
    \A t \in SnapshotsOf(world) : \A r \in C19_Results(t) : \A w \in VisibleNames :
      /\ C19_Recreated(r, w) => C19_Closing(r, w) = {}
      /\ C19_Deferred(r, t, w) => C19_MaybeClosing(r, w) # {}

\* ---- C20: disappearance handling by kind

\* The identifiers the cycle against snapshot t sees disappear: rendered,
\* absent from the target set and not closing yet.
C20_Gone(t) ==
  {id \in renderedItems : id \notin TargetSet(variant, t) /\ ~Has(closingItems, id)}

\* What the cycle r started at time at does for the disappeared identifier id.
C20_Handled(r, at, id) ==
  IF isBracketItem(id)
  THEN C4_Removes(r.batches, id) >= 1 /\ ~Has(r.closingItems, id)
  ELSE IF isWindowItem(id)
  THEN /\ C6_Shrinks(r.batches, id)
       /\ Has(r.closingItems, id) /\ r.closingItems[id] = at
  ELSE C4_Removes(r.batches, id) >= 1

\* C20: for every identifier in renderedItems that is absent from the target
\* set and not already in closingItems, the same cycle removes it and records
\* nothing in closingItems if it is a bracket, animates it to width 0 / hidden
\* and records the start time in closingItems if it is a window, and removes
\* it if it is of any other kind.
C20_ByKind ==
  (initialized /\ variant \in {"r6", "r5"}) =>
    \A t \in SnapshotsOf(world), dt \in Elapsed :
      ~t.nil =>
        \A r \in render(variant, Item, InputBatch, t, focusedWorkspaceID, now + dt) :
          \A id \in C20_Gone(t) : C20_Handled(r, now + dt, id)

\* ---- C21: grow-in of new windows

\* The window items the next cycle on snapshot t finds new: listed under a
\* visible workspace and not rendered (reconciler) / not tracked (aerospace.go).
C21_New(t) ==
  {x \in UNION {C6_WindowsIn(t, ws) : ws \in VisibleNames} :
     IF variant = "ev" THEN ~Has(windowIDs, x)
     ELSE getSketchybarWindowID(x) \notin renderedItems}

\* The batches the next full reconciliation may return on the snapshot t:
\* CheckTree of aerospace.go, or the render of part_006 after any time.
C21_Batches(t) ==
  IF variant = "ev"
  THEN {x.batches : x \in CheckTree(windowIDs, InputBatch, t, focusedWorkspaceID)}
  ELSE UNION {{r.batches : r \in render(variant, Item, InputBatch, t,
                                        focusedWorkspaceID, now + dt)}
              : dt \in Elapsed}

\* Command k of the batch b sets the item id, animated or not.
C21_Sets(b, k, id, animated) ==
  b[k].op = "set" /\ b[k].id = id /\ b[k].animate = animated

\* The batch b grows the window item id in: added, at once set closed (width
\* 0, icon hidden), and animated to its final state later in the batch.
C21_GrowsIn(b, id) ==
  \E k \in 1..(Len(b) - 1) :
    /\ b[k].op = "add" /\ b[k].id = id
    /\ C21_Sets(b, k + 1, id, FALSE) /\ b[k + 1].width = 0 /\ b[k + 1].drawing = "off"
    /\ \E n \in (k + 2)..Len(b) : C21_Sets(b, n, id, TRUE)

\* C21: every window item that is in the target set and not rendered yet is
\* added in the same batch with width 0 and icon hidden, and that add and
\* initial set precede the animated set that carries the final width and
\* visibility of the window; no window item is added in its final visible
\* state.
C21_GrowIn ==
  (initialized /\ variant \in {"r6", "ev"}) =>
    \A t \in SnapshotsOf(world) : \A b \in C21_Batches(t) :
      \A x \in C21_New(t) : C21_GrowsIn(b, getSketchybarWindowID(x))

\* ---- C22: window chaining and order

\* The item the window at place i of the list L is chained after: the
\* workspace item for the first window, the previous window for the others.
C22_Previous(workspace, L, i) ==
  IF i = 1 THEN getSketchybarWorkspaceID(workspace)
  ELSE getSketchybarWindowID(L[i - 1])

\* The batch b moves the item id after the item prev, has an animated set of
\* id, and no animated set of id comes before that move.
C22_Chained(b, id, prev) ==
  \E k \in 1..Len(b) :
    /\ b[k].op = "move" /\ b[k].id = id /\ b[k].after = prev
    /\ \E n \in (k + 1)..Len(b) : C21_Sets(b, n, id, TRUE)
    /\ \A n \in 1..(k - 1) : ~C21_Sets(b, n, id, TRUE)

\* C22: in every batch, for each workspace with the windows w1..wk in
\* snapshot order, the batch moves w1 after the workspace item and wi after
\* w(i-1), and the move of each window precedes the animated set of that
\* window.
C22_Chaining ==
  (initialized /\ variant \in {"r6", "ev"}) =>
    \A t \in SnapshotsOf(world) : \A b \in C21_Batches(t) :
      \A x \in VisibleOf(t) : \A i \in 1..Len(x.ws.Windows) :
        C22_Chained(b, getSketchybarWindowID(x.ws.Windows[i]),
                    C22_Previous(x.ws.Workspace, x.ws.Windows, i))

\* ---- C23: bracket remove before add

\* The batches a next cycle may return on the snapshot t: any handler of
\* aerospace.go, or the render of the reconciler revisions after any time.
C23_Batches(t) ==
  IF variant = "ev"
  THEN UNION {{h.r.batches : h \in Handled(e, "loop", t)} : e \in LoopEvents}
  ELSE UNION {{r.batches : r \in render(variant, Item, InputBatch, t,
                                        focusedWorkspaceID, now + dt)}
              : dt \in Elapsed}

\* In the batch b every remove of the item id comes before every add of the
\* bracket id.
C23_RemoveFirst(b, id) ==
  \A k, n \in 1..Len(b) :
    (b[k].op = "remove" /\ b[k].id = id /\ b[n].op = "addBracket" /\ b[n].id = id)
      => k < n

\* The members of the bracket of a workspace: the workspace item, then its
\* windows in snapshot order.
C23_Members(ws) ==
  <<getSketchybarWorkspaceID(ws.Workspace)>>
    \o [i \in 1..Len(ws.Windows) |-> getSketchybarWindowID(ws.Windows[i])]

\* The last command of the batch b that adds or removes the item id adds it
\* as a bracket with the given members.
C23_EndsWith(b, id, members) ==
  \E n \in 1..Len(b) :
    /\ b[n].op = "addBracket" /\ b[n].id = id /\ b[n].members = members
    /\ \A k \in (n + 1)..Len(b) : b[k].id = id => b[k].op \notin {"addBracket", "remove"}

\* A batch with both a remove and an add of the item id.
C23_Both(b, id) ==
  /\ C4_Removes(b, id) > 0
  /\ \E n \in 1..Len(b) : b[n].op = "addBracket" /\ b[n].id = id

\* C23: in every batch and for every workspace w, if the batch contains both
\* a remove and an add of the bracket of w, every such remove precedes the
\* add, and at the end of the batch the bracket exists with the new
\* membership (the windows the snapshot lists under w).
C23_RemoveBeforeAdd ==
  initialized =>
    \A t \in SnapshotsOf(world) : \A b \in C23_Batches(t) : \A x \in VisibleOf(t) :
      C23_Both(b, getSketchybarBracketID(x.ws.Workspace)) =>
        /\ C23_RemoveFirst(b, getSketchybarBracketID(x.ws.Workspace))
        /\ C23_EndsWith(b, getSketchybarBracketID(x.ws.Workspace), C23_Members(x.ws))

\* ---- C24: visibility filter

\* The items derived from a workspace that has no icon.
C24_HiddenItems ==
  UNION {{getSketchybarWorkspaceID(h), getSketchybarBracketID(h),
          getSketchybarSpacerID(h), getSketchybarBracketSpacerID(h)}
         : h \in WorkspaceNames \ iconsWorkspace}

\* The items the command c names.
C24_Named(c) == {c.id, c.after} \cup Range(c.members)

\* The windows the snapshot t lists under a workspace that has no icon.
C24_HiddenWindows(t) ==
  UNION {UNION {IF t.Monitors[m].Workspaces[i].Workspace \in iconsWorkspace THEN {}
                ELSE Range(t.Monitors[m].Workspaces[i].Windows)
                : i \in 1..Len(t.Monitors[m].Workspaces)}
         : m \in 1..Len(t.Monitors)}

\* The window x is rendered shown: the snapshot lists it under the focused
\* workspace and the item tracks it there.
C24_Shown(x) ==
  /\ ~tree.nil /\ x \in C6_WindowsIn(tree, focusedWorkspaceID)
  /\ IF variant = "ev"
     THEN Has(windowIDs, x) /\ windowIDs[x] = focusedWorkspaceID
     ELSE getSketchybarWindowID(x) \in renderedItems

\* The batch b hides or removes the item id.
C24_Hides(b, id) == C6_Shrinks(b, id) \/ C4_Removes(b, id) > 0 \/ C7_FinalWidth(b, id) = 0

\* C24: no command of an emitted batch and no entry of the render state
\* names an item (workspace item, bracket, spacer) derived from a workspace
\* without a configured icon, and the cycle that finds a shown window under
\* a workspace without a configured icon hides or removes its item.
C24_VisibilityFilter ==
  initialized =>
    /\ (renderedItems \cup bar) \cap C24_HiddenItems = {}
    /\ (DOMAIN workspaceWindowIDs \cup DOMAIN pendingBracketUpdates
          \cup DOMAIN bracketStates \cup {windowIDs[x] : x \in DOMAIN windowIDs})
         \cap HiddenNames = {}
    /\ \A t \in SnapshotsOf(world) : \A b \in C23_Batches(t) :
         \A k \in 1..Len(b) : C24_Named(b[k]) \cap C24_HiddenItems = {}
    /\ \A t \in SnapshotsOf(world) : \A b \in C21_Batches(t) :
         \A x \in C24_HiddenWindows(t) :
           C24_Shown(x) => C24_Hides(b, getSketchybarWindowID(x))

\* ---- C25: internal fault boundary

\* The fields of the render state in the result r are those of the item.
C25_StateKept(r) ==
  /\ r.renderedItems = renderedItems
  /\ r.closingItems = closingItems
  /\ r.workspaceWindowIDs = workspaceWindowIDs
  /\ r.pendingBracketUpdates = pendingBracketUpdates
  /\ r.bracketStates = bracketStates

\* C25: if a fault (panic) occurs inside a reconciliation cycle, the cycle
\* emits none of its own commands (the batch returned equals the batch passed
\* in) and the render state is left as it was before the cycle.
C25_FaultBoundary ==
  (initialized /\ variant = "r4") =>
    \A t \in SnapshotsOf(world), dt \in Elapsed :
      \A r \in renderFaulted(Item, InputBatch, t, focusedWorkspaceID, now + dt) :
        Returned(variant, InputBatch, r) = InputBatch /\ C25_StateKept(r)

\* ---- C26: resynchronisation of the tracked windows

\* The windows the snapshot t lists under visible workspaces.
C26_Listed(t) == UNION {Range(x.ws.Windows) : x \in VisibleOf(t)}

\* The tracked windows of the result x are exactly the windows t lists under
\* visible workspaces, each under the workspace that lists it.
C26_InSync(x, t) ==
  /\ DOMAIN x.windowIDs = C26_Listed(t)
  /\ \A y \in VisibleOf(t) : \A w \in Range(y.ws.Windows) :
       Has(x.windowIDs, w) /\ x.windowIDs[w] = y.ws.Workspace

\* C26: after any successful CheckTree against a non-nil tree T, whatever the
\* prior state, the tracked window items are exactly the windows listed under
\* visible workspaces of T, each mapped to the workspace that lists it in T.
C26_Resynchronised ==
  (initialized /\ variant = "ev") =>
    \A t \in SnapshotsOf(world) :
      \A x \in CheckTree(windowIDs, InputBatch, t, focusedWorkspaceID) :
        ~x.err => C26_InSync(x, t)

\* ---- C27: arrival order

\* C27: the sequence of messages passed to the server's message handler is
\* an order-preserving subsequence of the messages read from the FIFO: a
\* message passed to the handler has been read, was read after every message
\* passed before it, and is passed only when the handling of the previous
\* one, retries included, is complete.
C27_ArrivalOrder ==
  [][handling' # handling =>
       /\ attempt = 0
       /\ handling' > handling
       /\ handling' <= fifoRead]_vars

\* A message is being retried that was read after a message handled before
\* it.
C27_Witness == handling > 1 /\ attempt > 1

\* ---- C28: events are queued while the handling blocks

\* The non-empty messages among the set s of messages.
C28_NonEmpty(s) == {m \in s : nline(m.data) # <<>>}

\* C28: every non-empty message read from the FIFO while the message handler
\* is busy is kept for the handler: in no step taken while handleWithRetry
\* runs is a non-empty message discarded because internalCh or ch is full.
C28_QueuedNotLost ==
  [][attempt > 0 => C28_NonEmpty(dropped') = C28_NonEmpty(dropped)]_vars

\* ---- C29: the server survives a failure of the transport

\* Start has returned only if the context is cancelled, and it makes at most
\* maxRetries attempts.
C29_ReturnsOnCancel ==
  /\ startPc = "returned" => cancelled
  /\ startAttempt <= maxRetries

\* When startFifoListener returns, Start waits for the retry delay or enters
\* the fallback mode: the fallback mode after the last attempt and when the
\* listener has completed. Under a cancelled context no attempt starts.
C29_Step ==
  /\ (startPc = "listening" /\ startPc' # "listening") =>
       /\ startPc' \in {"delay", "fallback"}
       /\ startAttempt = maxRetries => startPc' = "fallback"
       /\ (listenerDone = "nil" /\ ~cancelled) => startPc' = "fallback"
       /\ startPc' = "fallback" =>
            listenerDone = "nil" \/ startAttempt = maxRetries
  /\ (startPc # "listening" /\ startPc' = "listening") => ~cancelled
  /\ startPc = "fallback" => startPc' \in {"fallback", "returned"}

\* C29: FifoServer.Start returns only after its context is cancelled; when
\* the listener fails on each of its 3 attempts, with the retry delay between
\* the attempts, or completes, Start enters the fallback mode instead of
\* returning; a cancellation during an attempt or a retry delay makes Start
\* return without a further attempt.
C29_Survives ==
  /\ []C29_ReturnsOnCancel
  /\ [][C29_Step]_vars
  /\ cancelled ~> startPc = "returned"

\* The listener has failed three times and the server runs in fallback
\* mode, its context not cancelled.
C29_Witness ==
  /\ startPc = "fallback" /\ startAttempt = maxRetries
  /\ listenerDone = "error" /\ ~cancelled

\* ---- C30: commands only target existing items

\* The command c is sound on the bar b, gone being the items removed earlier
\* in the batch: a set, move or remove names an item of the bar (a move also
\* as the item to move after), a bracket names members of the bar, an add
\* names an item that is not on the bar, and no item is removed twice.
C30_Sound(c, b, gone) ==
  /\ c.op \in {"set", "move", "remove"} => c.id \in b
  /\ c.op = "move" => c.after \in b
  /\ c.op = "remove" => c.id \notin gone
  /\ c.op \in {"add", "addBracket"} => c.id \notin b
  /\ c.op = "addBracket" => Range(c.members) \subseteq b

\* Every command of the batch is sound on the bar as the commands before it
\* have left it, starting from the bar b.
RECURSIVE C30_Targets(_, _, _)
C30_Targets(batches, b, gone) ==
  \/ batches = <<>>
  \/ /\ C30_Sound(Head(batches), b, gone)
     /\ C30_Targets(Tail(batches), ApplyBatch(b, <<Head(batches)>>),
                    IF Head(batches).op = "remove"
                    THEN gone \cup {Head(batches).id} ELSE gone)

\* C30: simulating the bar as the set of items added and not yet removed, in
\* every batch of every cycle each set, animate, move and remove command and
\* each bracket member reference names an item that is on the bar at that
\* point of the batch, each add names an item that is not on the bar at that
\* point, and no identifier is removed twice in one batch.
C30_OnlyExisting ==
  initialized =>
    \A t \in SnapshotsOf(world) : \A b \in C23_Batches(t) :
      C30_Targets(b, bar, {})

\* ---- C31: the render state mirrors the bar

\* C31: after every cycle the items on the bar (the previous bar with the
\* add and remove commands of the batch applied in order) are exactly
\* renderedItems together with the keys of closingItems; in particular every
\* identifier in renderedItems has had an add command emitted.
C31_MirrorsBar ==
  initialized => bar = renderedItems \cup DOMAIN closingItems

\* ---- C32: a reappearing window is not destroyed

\* The identifiers that are closing and are in the target set of the
\* snapshot t again.
C32_Reappearing(t) == DOMAIN closingItems \cap TargetSet(variant, t)

\* The batch b neither removes the item id nor adds it a second time while
\* it is on the bar.
C32_Kept(b, id) ==
  \A k \in 1..Len(b) :
    /\ b[k].op = "remove" => b[k].id # id
    /\ (b[k].op = "add" /\ id \in ApplyBatch(bar, SubSeq(b, 1, k - 1)))
         => b[k].id # id

\* C32: if an identifier is in closingItems and is again in the target set of
\* a later snapshot, no remove command is emitted for it in that cycle and no
\* second add while the original item is still on the bar; no identifier is
\* both in closingItems and in the target set at the end of a cycle.
C32_NotDestroyed ==
  (initialized /\ variant \in {"r6", "r5"}) =>
    /\ ~tree.nil => C32_Reappearing(tree) = {}
    /\ \A t \in SnapshotsOf(world) : \A b \in C23_Batches(t) :
         \A id \in C32_Reappearing(t) : C32_Kept(b, id)

\* ---- C33: deferred bracket updates never apply a stale membership

\* The window items among the members of the bracket command c.
C33_WindowMembers(c) == {x \in Range(c.members) : isWindowItem(x)}

\* The bracket command c is of a workspace the snapshot t lists with at
\* least one window, and its window members are the windows t lists there.
C33_Current(c, t) ==
  \E x \in VisibleOf(t) :
    /\ getSketchybarBracketID(x.ws.Workspace) = c.id
    /\ x.ws.Windows # <<>>
    /\ C33_WindowMembers(c) =
         {getSketchybarWindowID(w) : w \in Range(x.ws.Windows)}

\* C33: every add of a bracket emitted for a workspace w, also one emitted
\* from pendingBracketUpdates, lists as members exactly the window items w
\* has in the snapshot of the cycle that emits it, and none is emitted for a
\* workspace that is absent from that snapshot or has no window in it.
C33_NeverStale ==
  (initialized /\ variant = "r6") =>
    \A t \in SnapshotsOf(world) : \A b \in C23_Batches(t) :
      \A k \in 1..Len(b) : b[k].op = "addBracket" => C33_Current(b[k], t)

\* ---- C34: poll quiescence

\* C34: a delayed poll's own reconciliation, the synthetic
\* space_windows_change Update it issues, never schedules a further delayed
\* poll, however long that reconciliation takes: when the Update of the poll
\* goroutine returns, no timer is pending that was not pending before, so
\* that only finitely many polls run once the external events have stopped.
C34_PollQuiescence ==
  [][(InUpdate("poll") /\ ~InUpdate("poll")')
       => pollTimer' \in {NoTime, pollTimer}]_vars

\* ---- C35: a single poll in flight

\* isPolling is true exactly while the goroutine of a poll exists.
C35_Flag == isPolling <=> pc["poll"] # "idle"

\* The goroutine of a poll is started only while none exists, and the
\* function of a timer that runs while one exists leaves it alone.
C35_Step ==
  /\ (pc'["poll"] = "spawned" /\ pc["poll"] # "spawned")
       => (~isPolling /\ pc["poll"] = "idle")
  /\ (isPolling /\ fired' < fired)
       => (pc' = pc /\ isPolling' /\ lastPollTime' = lastPollTime)

\* C35: under every interleaving of timer callbacks and startDelayedPoll
\* calls at most one delayed-poll goroutine executes the sync callback at
\* any time, isPolling is true exactly while one is running, and a timer
\* that fires while one is running starts no second one.
C35_SinglePoll == []C35_Flag /\ [][C35_Step]_vars

\* The function of a timer has run while the poll was inside its Update,
\* and the poll goes on.
C35_Witness == isPolling /\ InUpdate("poll") /\ fired > 0

\* ---- C36: no send on a closed channel

\* C36: under every interleaving of shutdown, listener completion and
\* message arrival, the reader goroutine does not send on internalCh after
\* listenAttempt has closed it, and the listener does not send on the
\* message channel of the server after startFifoListener has closed it.
C36_NoClosedSend == closedSend = {}

\* ---- C37: event processing resumes after a listener failure

\* C37: whenever the FIFO listener has ended, with an error or normally,
\* while the context is still live, the server eventually listens on the
\* FIFO again (and so handles the messages written afterwards), unless the
\* context is cancelled first.
C37_Resumes ==
  (startPc \in {"delay", "fallback"} /\ ~cancelled)
    ~> (startPc = "listening" \/ cancelled)

\* ---- C38: bounded message retry

\* The calls of handleSafely for the message in hand are counted by attempt:
\* there are at most maxRetries of them, and an init message gets one.
C38_Bounded ==
  /\ attempt <= maxRetries
  /\ (attempt > 1 => Head(call.msg) # "init")

\* A step of the server loop: a further call for the same message follows
\* only a call that returned an error, not one that returned nil or
\* panicked, and the call after the last one is not made: the message is
\* given up and the loop goes on with what ch holds.
C38_Step ==
  /\ (attempt > 0 /\ attempt' > attempt) =>
       /\ attempt' = attempt + 1
       /\ call'.body = "error" /\ call'.err = "error"
       /\ call'.msg = call.msg /\ handling' = handling
  /\ (attempt = maxRetries /\ attempt' # attempt) =>
       /\ attempt' = 0
       /\ ch' = ch /\ startPc' = "listening"
  /\ (attempt = 0 /\ attempt' > 0) =>
       /\ attempt' = 1
       /\ handling' = Head(ch).n /\ ch' = Tail(ch)

\* C38: each FIFO message is passed to the handler at most 3 times; it is
\* retried only when the previous attempt returned an error, never after an
\* attempt that succeeded or panicked, an init message is never retried, and
\* after the third failure the message is skipped and the next one handled.
C38_BoundedRetry == []C38_Bounded /\ [][C38_Step]_vars

\* The second message is in its third call after two errors.
C38_Witness ==
  /\ handling > 1 /\ attempt = maxRetries
  /\ call.err = "error"

\* ---- C39: consistent display assignment

\* The display values the batch b sets on the item id.
C39_Displays(b, id) ==
  {b[k].display : k \in {n \in 1..Len(b) : /\ b[n].op = "set" /\ b[n].id = id
                                          /\ b[n].display # ""}}

\* The batches the item may return next on the snapshot t: the batch of
\* Init before the item is initialized, the batches of a cycle after it.
C39_Batches(t) ==
  IF variant = "ev" /\ ~initialized
  THEN {initItem(windowIDs, InputBatch, t, focusedWorkspaceID).batches}
  ELSE C23_Batches(t)

\* C39: in every batch, the display value set on a window item equals the
\* display value set on the workspace item of the workspace that contains
\* it, for every monitor id and monitor count.
C39_SameDisplay ==
  \A t \in SnapshotsOf(world) : \A b \in C39_Batches(t) :
    \A m \in 1..Len(t.Monitors) :
      \A i \in 1..Len(t.Monitors[m].Workspaces) :
        \A w \in Range(t.Monitors[m].Workspaces[i].Windows) :
          \A d \in C39_Displays(b, getSketchybarWindowID(w)) :
            C39_Displays(b, getSketchybarWorkspaceID(
                              t.Monitors[m].Workspaces[i].Workspace)) \subseteq {d}

\* ---- C40: pid file ownership

\* A step of the start commands: the pid file is written only when it is
\* absent or holds the pid of no live process, and it is removed only by
\* the process whose pid it holds, when that process shuts down.
C40_Step ==
  /\ (pidFile' # pidFile /\ pidFile' # NoFile) =>
       \/ pidFile = NoFile
       \/ instance[Head(pidFile)] \notin {"writing", "running"}
  /\ (pidFile # NoFile /\ pidFile' = NoFile) =>
       /\ instance[Head(pidFile)] = "running"
       /\ instance'[Head(pidFile)] = "stopped"

\* C40: the pid file is written only when no live process is recorded in
\* it, and it is removed on shutdown only by the instance whose pid it
\* contains; starting a second instance while the first is alive neither
\* overwrites nor deletes the first instance's pid file.
C40_Ownership == [][C40_Step]_vars

====
